---- MODULE Spec2Model ----
(***************************************************************************)
(* A model of the MCP server framework (src/MCPServerFramework.py and its  *)
(* packaged copy aio_mcp_server_framework/core.py): the request-context    *)
(* adapter, the four protocol handlers of MCPServerCore, and the process   *)
(* lifecycle of MCPServerFramework.                                        *)
(*                                                                         *)
(* Exceptions are records [cls, arg].  The classes that occur are all      *)
(* derived from Exception, which is what the handlers' `except Exception`  *)
(* clauses catch; SystemExit is modelled separately in the lifecycle part. *)
(***************************************************************************)
EXTENDS Integers, Sequences, FiniteSets, TLC

\* ------------------------------------------------------------------ bounds
\* number of context calls (ctx.info, ctx.report_progress, ...) a module's
\* call_tool makes during one invocation
MaxScript == 2
\* number of signals the environment delivers to the process in one run
MaxExternal == 2
\* the count of self-directed signals saturates here
MaxCount == 2
\* SSE connections the HTTP server accepts in a run
MaxSessions == 2

\* ------------------------------------------------------------------ values
NoTotal == -1                       \* stands for total=None
NoExc == [cls |-> "none", arg |-> ""]

ExceptionDerived == {"ValueError", "KeyError", "NotImplementedError",
                     "TypeError", "ClosedResourceError", "AttributeError",
                     "RuntimeError", "LookupError"}

\* str(e): the message of the exception; KeyError renders the repr of its key
str(e) == IF e.cls = "KeyError" THEN "'" \o e.arg \o "'" ELSE e.arg

\* str(request_id) for the integer request ids of the protocol
str_int(n) == ToString(n)

\* sys.exit(code) raises SystemExit, a BaseException that is no Exception
SystemExit(code) == [cls |-> "SystemExit", arg |-> ToString(code)]

\* `except Exception` of the narrowed kind a slip would write
ExceptValueErrorOnly(e) == e.cls = "ValueError"

\* `except Exception as e`: does the clause catch e
ExceptException(e) == e.cls \in ExceptionDerived

\* bool(arguments) for arguments: Dict | None
Truthy(arguments) == arguments.tag = "dict" /\ DOMAIN arguments.items # {}

\* json.dumps(result, indent=2, ensure_ascii=False) of a one-key dict of
\* strings; any other object raises TypeError
json_dumps(v) ==
    IF v.json
    THEN [raised |-> NoExc,
          text |-> "{\n  \"" \o v.key \o "\": \"" \o v.val \o "\"\n}"]
    ELSE [raised |-> [cls |-> "TypeError",
                      arg |-> "Object of type " \o v.key
                              \o " is not JSON serializable"],
          text |-> ""]

TextContent(t) == [type |-> "text", text |-> t]

\* --------------------------------------------------------- events of a run
Local(sink, level, msg) == [ev |-> "local", sink |-> sink, level |-> level, msg |-> msg]
SendLog(level, data, logger, raises) ==
    [ev |-> "send_log_message", level |-> level, data |-> data,
     logger |-> logger, raises |-> raises]
SendProgress(token, progress, total, raises) ==
    [ev |-> "send_progress_notification", progress_token |-> token,
     progress |-> progress, total |-> total, raises |-> raises]
Called(target) == [ev |-> "call", target |-> target]
Stdout(text) == [ev |-> "stdout", text |-> text]

\* Every event of a handler's trace carries the index of the module's ctx
\* call that produced it (0: produced by the handler itself).
Tag(events, i) == [k \in 1..Len(events) |-> [call |-> i] @@ events[k]]

\* the exception a disconnected session raises from a send
SendError == [cls |-> "ClosedResourceError", arg |-> "closed"]

LogSendFailed == "log send failed: "            \* "向客户端发送日志消息失败: "
ProgressSendFailed == "progress send failed: "  \* "向客户端发送进度通知失败: "

\* ----------------------------------------------- ExtendedRequestContext
\* hasattr(ctx, "session") and hasattr(ctx.session, "send_log_message")
HasSendLog(ctx) == ctx.session = "present" /\ ctx.send_log

\* One log method: the local record first, then the guarded remote send
\* inside try/except.  msgSink is the logger the message goes to, failSink
\* the logger the send failure is reported on.  Result: the events in
\* order and the exception leaving the method (NoExc: returns normally).
LogMethodUnguarded(level, msgSink, failSink, ctx, message, logger_name, sendRaises) ==
    IF HasSendLog(ctx)
    THEN [events |-> <<Local(msgSink, level, message),
                       SendLog(level, message, logger_name, sendRaises)>>,
          raised |-> IF sendRaises THEN SendError ELSE NoExc]
    ELSE [events |-> <<Local(msgSink, level, message)>>, raised |-> NoExc]

LogMethodSendFirst(level, msgSink, failSink, ctx, message, logger_name, sendRaises) ==
    IF HasSendLog(ctx)
    THEN [events |-> <<SendLog(level, message, logger_name, sendRaises)>>
                     \o (IF sendRaises
                         THEN <<Local(failSink, "error", LogSendFailed \o str(SendError))>>
                         ELSE <<>>)
                     \o <<Local(msgSink, level, message)>>,
          raised |-> NoExc]
    ELSE [events |-> <<Local(msgSink, level, message)>>, raised |-> NoExc]

LogMethodAlwaysSend(level, msgSink, failSink, ctx, message, logger_name, sendRaises) ==
    [events |-> <<Local(msgSink, level, message),
                  SendLog(level, message, logger_name, sendRaises)>>
                \o (IF sendRaises
                    THEN <<Local(failSink, "error", LogSendFailed \o str(SendError))>>
                    ELSE <<>>),
     raised |-> NoExc]

LogMethod(level, msgSink, failSink, ctx, message, logger_name, sendRaises) ==
    IF HasSendLog(ctx)
    THEN [events |-> <<Local(msgSink, level, message),
                       SendLog(level, message, logger_name, sendRaises)>>
                     \o (IF sendRaises /\ ExceptException(SendError)
                         THEN <<Local(failSink, "error", LogSendFailed \o str(SendError))>>
                         ELSE <<>>),
          raised |-> IF sendRaises /\ ~ExceptException(SendError)
                     THEN SendError ELSE NoExc]
    ELSE [events |-> <<Local(msgSink, level, message)>>, raised |-> NoExc]

\* src/MCPServerFramework.py: the message goes to self.logger (set by
\* handle_call_tool); debug reports a failed send on the root logger
info(ctx, message, logger_name, sendRaises) ==
    LogMethod("info", "server", "server", ctx, message, logger_name, sendRaises)
error(ctx, message, logger_name, sendRaises) ==
    LogMethod("error", "server", "server", ctx, message, logger_name, sendRaises)
warning(ctx, message, logger_name, sendRaises) ==
    LogMethod("warning", "server", "server", ctx, message, logger_name, sendRaises)
debug(ctx, message, logger_name, sendRaises) ==
    LogMethod("debug", "server", "root", ctx, message, logger_name, sendRaises)

\* aio_mcp_server_framework/core.py: the message goes to
\* logging.getLogger(logger_name), failures to the root logger
core_log(level, ctx, message, logger_name, sendRaises) ==
    LogMethod(level, "named:" \o logger_name, "root", ctx, message, logger_name, sendRaises)

\* a token the caller put in the request's meta
ClientToken == "tok"

\* report_progress of src/MCPServerFramework.py
report_progress_ignores_token(ctx, progress, total, sendRaises) ==
    IF ctx.session = "present"
    THEN LET shown == IF ctx.meta # "absent"
                      THEN <<Stdout("#DEBUG# progress_token")>> ELSE <<>>
         IN IF ctx.send_progress
            THEN [events |-> shown
                             \o <<SendProgress(ClientToken, progress, total, sendRaises)>>
                             \o (IF sendRaises
                                 THEN <<Local("root", "error",
                                              ProgressSendFailed \o str(SendError))>>
                                 ELSE <<>>),
                  raised |-> NoExc]
            ELSE [events |-> shown, raised |-> NoExc]
    ELSE [events |-> <<>>, raised |-> NoExc]

report_progress_unguarded(ctx, progress, total, sendRaises) ==
    IF ctx.session = "present"
    THEN LET shown == IF ctx.meta # "absent"
                      THEN <<Stdout("#DEBUG# progress_token")>> ELSE <<>>
         IN IF ctx.meta # "token"
            THEN [events |-> shown, raised |-> NoExc]
            ELSE IF ctx.send_progress
            THEN [events |-> shown
                             \o <<SendProgress(ClientToken, progress, total, sendRaises)>>,
                  raised |-> IF sendRaises THEN SendError ELSE NoExc]
            ELSE [events |-> shown, raised |-> NoExc]
    ELSE [events |-> <<>>, raised |-> NoExc]

report_progress(ctx, progress, total, sendRaises) ==
    IF ctx.session = "present"
    THEN \* the debugging print of a truthy meta
         LET shown == IF ctx.meta # "absent"
                      THEN <<Stdout("#DEBUG# progress_token")>> ELSE <<>>
         IN IF ctx.meta # "token"
            THEN [events |-> shown, raised |-> NoExc]           \* return
            ELSE IF ctx.send_progress
            THEN [events |-> shown
                             \o <<SendProgress(ClientToken, progress, total, sendRaises)>>
                             \o (IF sendRaises /\ ExceptException(SendError)
                                 THEN <<Local("root", "error",
                                              ProgressSendFailed \o str(SendError))>>
                                 ELSE <<>>),
                  raised |-> IF sendRaises /\ ~ExceptException(SendError)
                             THEN SendError ELSE NoExc]
            ELSE [events |-> shown, raised |-> NoExc]
    ELSE [events |-> <<>>, raised |-> NoExc]

\* mistaken reading: the core.py copy also returns when the request has no
\* progress token
core_report_progress_no_fallback(ctx, progress, total, sendRaises) ==
    IF ctx.session = "present"
    THEN IF ctx.meta # "token"
         THEN [events |-> <<>>, raised |-> NoExc]
         ELSE IF ctx.send_progress
         THEN [events |-> <<SendProgress(ClientToken, progress, total, sendRaises)>>
                          \o (IF sendRaises /\ ExceptException(SendError)
                              THEN <<Local("root", "error",
                                           ProgressSendFailed \o str(SendError))>>
                              ELSE <<>>),
               raised |-> IF sendRaises /\ ~ExceptException(SendError)
                          THEN SendError ELSE NoExc]
         ELSE [events |-> <<>>, raised |-> NoExc]
    ELSE [events |-> <<>>, raised |-> NoExc]

\* report_progress of aio_mcp_server_framework/core.py: without a token
\* the request id, rendered as a string, is used as the token
core_report_progress(ctx, progress, total, sendRaises) ==
    IF ctx.session = "present"
    THEN LET progress_token == IF ctx.meta = "token" THEN ClientToken
                               ELSE str_int(ctx.request_id)
         IN IF ctx.send_progress
            THEN [events |-> <<SendProgress(progress_token, progress, total, sendRaises)>>
                             \o (IF sendRaises /\ ExceptException(SendError)
                                 THEN <<Local("root", "error",
                                              ProgressSendFailed \o str(SendError))>>
                                 ELSE <<>>),
                  raised |-> IF sendRaises /\ ~ExceptException(SendError)
                             THEN SendError ELSE NoExc]
            ELSE [events |-> <<>>, raised |-> NoExc]
    ELSE [events |-> <<>>, raised |-> NoExc]

\* ------------------------------------------------- a module's call_tool
\* What a module does in call_tool is an input: a script of calls on the
\* ctx it was given, then a returned value or a raised exception.
CtxCall(cp, ctx, op, sendRaises) ==
    IF op.m = "report_progress"
    THEN IF cp = "main" THEN report_progress(ctx, op.progress, op.total, sendRaises)
         ELSE core_report_progress(ctx, op.progress, op.total, sendRaises)
    ELSE IF cp = "core" THEN core_log(op.m, ctx, op.message, op.logger_name, sendRaises)
    ELSE CASE op.m = "info" -> info(ctx, op.message, op.logger_name, sendRaises)
           [] op.m = "error" -> error(ctx, op.message, op.logger_name, sendRaises)
           [] op.m = "warning" -> warning(ctx, op.message, op.logger_name, sendRaises)
           [] op.m = "debug" -> debug(ctx, op.message, op.logger_name, sendRaises)

RECURSIVE RunScript(_, _, _, _, _)
RunScript(cp, ctx, ops, failing, i) ==
    IF i > Len(ops) THEN [events |-> <<>>, raised |-> NoExc]
    ELSE LET r == CtxCall(cp, ctx, ops[i], i \in failing)
         IN IF r.raised # NoExc
            THEN [events |-> Tag(r.events, i), raised |-> r.raised]
            ELSE LET rest == RunScript(cp, ctx, ops, failing, i + 1)
                 IN [events |-> Tag(r.events, i) \o rest.events,
                     raised |-> rest.raised]

Returns(v) == [kind |-> "return", value |-> v, exc |-> NoExc]
Raises(e) == [kind |-> "raise", value |-> [json |-> FALSE, key |-> "", val |-> ""], exc |-> e]

\* await self.module_manager.call_tool(name, arguments, ctx=extended_ctx)
module_call_tool(cp, name, arguments, ctx, behaviour, failing) ==
    LET run == RunScript(cp, ctx, behaviour.ops, failing, 1)
    IN [events |-> Tag(<<Called("module.call_tool")>>, 0) \o run.events,
        outcome |-> IF run.raised # NoExc THEN Raises(run.raised)
                    ELSE behaviour.outcome]

\* ------------------------------------------------------- MCPServerCore
Return(c) == [kind |-> "return", content |-> c, exc |-> NoExc]
Raise(e) == [kind |-> "raise", content |-> <<>>, exc |-> e]

\* the except clause of handle_call_tool
CallToolExcept(name, e, events) ==
    IF ExceptException(e)
    THEN [events |-> events
                     \o Tag(<<Stdout("Error in tool " \o name \o ": " \o str(e))>>, 0),
          result |-> Return(<<TextContent("Error: " \o str(e))>>)]
    ELSE [events |-> events, result |-> Raise(e)]

handle_call_tool_unchecked(cp, name, arguments, ctx, behaviour, failing) ==
    LET m == module_call_tool(cp, name, arguments, ctx, behaviour, failing)
    IN IF m.outcome.kind = "raise"
       THEN CallToolExcept(name, m.outcome.exc, m.events)
       ELSE LET j == json_dumps(m.outcome.value)
            IN IF j.raised # NoExc
               THEN CallToolExcept(name, j.raised, m.events)
               ELSE [events |-> m.events, result |-> Return(<<TextContent(j.text)>>)]

handle_call_tool(cp, name, arguments, ctx, behaviour, failing) ==
    IF ~Truthy(arguments)
    THEN CallToolExcept(name, [cls |-> "ValueError", arg |-> "Missing arguments"], <<>>)
    ELSE LET m == module_call_tool(cp, name, arguments, ctx, behaviour, failing)
         IN IF m.outcome.kind = "raise"
            THEN CallToolExcept(name, m.outcome.exc, m.events)
            ELSE LET j == json_dumps(m.outcome.value)
                 IN IF j.raised # NoExc
                    THEN CallToolExcept(name, j.raised, m.events)
                    ELSE [events |-> m.events,
                          result |-> Return(<<TextContent(j.text)>>)]

Prompt(n) == [type |-> "prompt", text |-> n]
PromptResult(n) == [type |-> "prompt_result", text |-> n]

\* BaseModuleManager.get_prompt_templates / get_prompt_content
BaseModuleManager_get_prompt_templates == Return(<<>>)
BaseModuleManager_get_prompt_content(name, arguments) ==
    Raise([cls |-> "ValueError", arg |-> "prompt not found: " \o name])

\* the logger the core's handlers write to: self.logger in
\* src/MCPServerFramework.py, logging.getLogger(__name__) in core.py
CoreLogger(cp) == IF cp = "main" THEN "server" ELSE "module_logger"

ListPromptsFailed == "list prompts failed: "    \* "获取提示模板列表出错: "
GetPromptFailed == "get prompt failed: "        \* "获取提示模板内容出错: "
GetPromptDebug == "get prompt: "                \* "获取提示模板: "

handle_list_prompts_reraises(cp, override, outcome) ==
    LET target == IF override THEN "get_prompt_templates_func"
                  ELSE "module.get_prompt_templates"
    IN IF outcome.kind = "raise"
       THEN [events |-> Tag(<<Called(target),
                              Local(CoreLogger(cp), "error",
                                    ListPromptsFailed \o str(outcome.exc))>>, 0),
             result |-> Raise(outcome.exc)]
       ELSE [events |-> Tag(<<Called(target)>>, 0), result |-> Return(outcome.content)]

\* outcome: what the source of templates does when called (a returned
\* list or a raised exception)
\* mistaken reading: the module is asked whether or not an override was
\* supplied
handle_list_prompts_module_only(cp, override, outcome) ==
    [events |-> Tag(<<Called("module.get_prompt_templates")>>, 0),
     result |-> IF outcome.kind = "raise" THEN Return(<<>>)
                ELSE Return(outcome.content)]

handle_list_prompts(cp, override, outcome) ==
    LET target == IF override THEN "get_prompt_templates_func"
                  ELSE "module.get_prompt_templates"
    IN IF outcome.kind = "raise" /\ ExceptException(outcome.exc)
       THEN [events |-> Tag(<<Called(target),
                              Local(CoreLogger(cp), "error",
                                    ListPromptsFailed \o str(outcome.exc))>>, 0),
             result |-> Return(<<>>)]
       ELSE [events |-> Tag(<<Called(target)>>, 0),
             result |-> IF outcome.kind = "raise" THEN Raise(outcome.exc)
                        ELSE Return(outcome.content)]

handle_get_prompt_swallows(cp, override, name, arguments, outcome) ==
    LET target == IF override THEN "get_prompt_content_func"
                  ELSE "module.get_prompt_content"
        start == Tag(<<Local(CoreLogger(cp), "debug", GetPromptDebug \o name),
                       Called(target)>>, 0)
    IN IF outcome.kind = "raise"
       THEN [events |-> start \o Tag(<<Local(CoreLogger(cp), "error",
                                             GetPromptFailed \o str(outcome.exc))>>, 0),
             result |-> Return(<<>>)]
       ELSE [events |-> start, result |-> Return(outcome.content)]

handle_get_prompt(cp, override, name, arguments, outcome) ==
    LET target == IF override THEN "get_prompt_content_func"
                  ELSE "module.get_prompt_content"
        start == Tag(<<Local(CoreLogger(cp), "debug", GetPromptDebug \o name),
                       Called(target)>>, 0)
    IN IF outcome.kind = "raise" /\ ExceptException(outcome.exc)
       THEN \* logger.error(...); raise
            [events |-> start \o Tag(<<Local(CoreLogger(cp), "error",
                                             GetPromptFailed \o str(outcome.exc))>>, 0),
             result |-> Raise(outcome.exc)]
       ELSE [events |-> start,
             result |-> IF outcome.kind = "raise" THEN Raise(outcome.exc)
                        ELSE Return(outcome.content)]

\* ------------------------------------------------------------ the inputs
ToolNames == {"hello", "other"}
PromptNames == {"hello_prompt", "missing"}
NoneArgs == [tag |-> "None", items |-> <<>>]
EmptyArgs == [tag |-> "dict", items |-> <<>>]
SomeArgs == [tag |-> "dict", items |-> [k \in {"name"} |-> "Ada"]]
Arguments == {NoneArgs, EmptyArgs, SomeArgs}

RequestId == 7
Contexts ==
    {[session |-> "absent", send_log |-> FALSE, send_progress |-> FALSE,
      meta |-> m, request_id |-> RequestId] : m \in {"absent", "no_token", "token"}}
    \cup
    {[session |-> "present", send_log |-> l, send_progress |-> p,
      meta |-> m, request_id |-> RequestId] :
        l \in BOOLEAN, p \in BOOLEAN, m \in {"absent", "no_token", "token"}}

LogLevels == {"info", "warning", "error", "debug"}
CtxOps ==
    {[m |-> l, message |-> "msg", logger_name |-> "default",
      progress |-> 0, total |-> NoTotal] : l \in LogLevels}
    \cup
    {[m |-> "report_progress", message |-> "", logger_name |-> "",
      progress |-> 1, total |-> 4],
     [m |-> "report_progress", message |-> "", logger_name |-> "",
      progress |-> 2, total |-> NoTotal]}
Scripts == UNION {[1..n -> CtxOps] : n \in 0..MaxScript}

ToolOutcomes ==
    {Returns([json |-> TRUE, key |-> "message", val |-> "done"]),
     Returns([json |-> FALSE, key |-> "set", val |-> ""]),
     Raises([cls |-> "ValueError", arg |-> "boom"]),
     Raises([cls |-> "KeyError", arg |-> "name"])}
Behaviours == {[ops |-> o, outcome |-> r] : o \in Scripts, r \in ToolOutcomes}
\* What a module does is decided when it is called: a request whose
\* arguments are rejected is paired with one behaviour only.
BehavioursFor(arguments) ==
    IF Truthy(arguments) THEN Behaviours
    ELSE {[ops |-> <<CHOOSE o \in CtxOps : o.m = "info">>,
           outcome |-> Returns([json |-> TRUE, key |-> "message", val |-> "done"])]}

PromptListOutcomes ==
    {BaseModuleManager_get_prompt_templates,
     Return(<<Prompt("hello_prompt")>>),
     Raise([cls |-> "ValueError", arg |-> "bad templates"]),
     Raise([cls |-> "KeyError", arg |-> "name"])}
PromptContentOutcomes(name, arguments) ==
    {BaseModuleManager_get_prompt_content(name, arguments),
     Return(<<PromptResult(name)>>),
     Raise([cls |-> "KeyError", arg |-> "name"])}

\* -------------------------------------------------------------- the state
VARIABLES
    copy,            \* which copy of the framework runs: "main" or "core"
    templates_func,  \* MCPServerCore.get_prompt_templates_func is not None
    content_func,    \* MCPServerCore.get_prompt_content_func is not None
    pc,              \* "waiting" for a request or "responded" to one
    req,             \* the request handled last
    result,          \* what its handler returned or raised
    trace            \* what the handler did, in order

VARIABLES
    platform,        \* "win32" or "posix" (sys.platform, hasattr(signal, "SIGBREAK"))
    phase,           \* "constructed", then "serving" (the stdio serve loop)
    proc,            \* "running" or "exited"
    exit_code,       \* the exit status, NoExit while running
    inflight,        \* a request of the stdio session is being handled
    signals,         \* signals delivered whose Python handler has not run yet
    tasks,           \* _trigger_shutdown tasks created and not yet run
    shutdown_event,  \* self._shutdown_event.is_set()
    life_log,        \* the lifecycle records written to the local log
    parent,          \* what the monitor finds when it checks the parent
    monitor,         \* _monitor_parent_process: "off", "running", "stopped"
    external,        \* signals delivered by the environment so far
    self_signals,    \* signals the process sent to itself (saturating)
    ended,           \* how run() ended: sys.exit, an uncaught exception, a return
    closing          \* what the end of the transport run did to the log
                     \* handlers, in order: "record" written, "flush"

VARIABLES
    cli_transport,     \* args.transport: "stdio" or "sse"
    stdin_in,          \* what standard input holds when run() starts
    stdout_out,        \* what run() printed, in order
    config_written,    \* _save_config was called
    built,             \* what startup has constructed so far
    conn,              \* the SSE connections: "none", "open" or "failed"
    catalog,           \* the tool catalog of the one module instance
    hist,              \* the two most recent list_tools results, and who
                       \* changed the catalog since
    notes              \* notify_resources_changed tasks created and not yet run

reqVars == <<copy, templates_func, content_func, pc, req, result, trace>>
lifeVars == <<platform, phase, proc, exit_code, inflight, signals, tasks,
              shutdown_event, life_log, parent, monitor, external, self_signals,
              ended, closing>>
runVars == <<cli_transport, stdin_in, stdout_out,
             config_written, built, conn, catalog, hist, notes>>

VARIABLES
    config_file,     \* config.json next to the program: missing, unreadable or saved
    launch,          \* the command line, standard input, answers and loaded
                     \* configuration of the latest run() studied
    started,         \* what that run() resolved and started
    runs             \* how many such runs there were

VARIABLES
    change_listeners,  \* BaseModuleManager.change_listeners of one manager
    calls,             \* add_change_listener calls made on it
    probe              \* the latest call made on an object under study, and
                       \* what it returned or raised

VARIABLES
    inv,            \* per session: the adapter its call_tool invocation in
                    \* flight was given, 0 when it has none
    adapters,       \* the ExtendedRequestContext objects created so far: the
                    \* session whose request context each one wraps
    instances,      \* module manager objects constructed so far
    factory_calls,  \* calls of create_module_manager_func so far
    last            \* the latest answer or notification of the server

cfgVars == <<config_file, launch, started, runs>>
unitVars == <<change_listeners, calls, probe>>
concVars == <<inv, adapters, instances, factory_calls, last>>
asideVars == <<cfgVars, unitVars, concVars>>
vars == <<reqVars, lifeVars, runVars, asideVars>>

NoExit == -1
Running == [kind |-> "running", exc |-> NoExc]
LifeInit(pf) ==
    /\ platform \in pf
    /\ phase = "constructed"
    /\ proc = "running"
    /\ exit_code = NoExit
    /\ inflight = FALSE
    /\ signals = {}
    /\ tasks = 0
    /\ shutdown_event = FALSE
    /\ life_log = {}
    /\ parent = "alive"
    /\ monitor = "off"
    /\ external = 0
    /\ self_signals = 0
    /\ ended = Running
    /\ closing = <<>>

\* the connections of a run, and 0 for "outside any request"
Sessions == 1..MaxSessions
NoSession == 0

\* HelloWorldModuleManager.get_tools: the one tool "hello"; a module whose
\* catalog changes publishes "extra" as well
InitialCatalog == {"hello"}
Catalogs == {InitialCatalog, InitialCatalog \cup {"extra"}}

\* prev and cur: the results of the last two list_tools requests, {} until
\* asked; changer: the session whose tool call changed the catalog since
\* the last one; between: there was such a change between the two; cross:
\* there was one before the last, made by another session than the asker
NoHist == [prev |-> {}, cur |-> {}, between |-> FALSE, changer |-> NoSession,
           cross |-> FALSE]

\* standard input when run() starts: a terminal, nothing, a JSON-RPC
\* "help" (with or without an id), a "start" request, or text that is
\* not JSON; under --transport stdio it is the protocol stream
HelpIds == {"1", "req-2"}
StdinOf(kind, id, has_id) == [kind |-> kind, id |-> id, has_id |-> has_id]
StdinStream == StdinOf("stream", "", FALSE)
\* once run() is past the handshake
StdinDone == StdinOf("done", "", FALSE)
StdinInputs ==
    {StdinOf(k, "", FALSE) : k \in {"tty", "empty", "help", "start", "not_json"}}
        \cup {StdinOf("help", id, TRUE) : id \in HelpIds}
        \cup {StdinOf("start", id, TRUE) : id \in HelpIds}

\* the names declared in module_parameters of helloword.py
module_parameters == {"greeting"}

RunInit ==
    /\ cli_transport \in {"stdio", "sse"}
    /\ stdin_in \in (IF cli_transport = "stdio" THEN {StdinStream} ELSE StdinInputs)
    /\ stdout_out = <<>>
    /\ config_written = FALSE
    /\ built = {}
    /\ conn = [s \in Sessions |-> "none"]
    /\ catalog = InitialCatalog
    /\ hist = NoHist
    /\ notes = {}

\* the request handlers are studied under one stdio run of helloword.py
RunAside ==
    /\ cli_transport = "stdio"
    /\ stdin_in = StdinStream
    /\ stdout_out = <<>>
    /\ config_written = FALSE
    /\ built = {}
    /\ conn = [s \in Sessions |-> "none"]
    /\ catalog = InitialCatalog
    /\ hist = NoHist
    /\ notes = {}

\* ------------------------------------------- values of the other studies
\* an optional value: Python's None, or a value that is present
None == <<>>
Some(v) == <<v>>

\* before the first run() studied
NoLaunch == [kind |-> "none"]
NoStarted == [kind |-> "none"]
\* before the first call on an object under study
NoProbe == [op |-> "none"]

CfgAside ==
    /\ config_file = [kind |-> "missing"]
    /\ launch = NoLaunch
    /\ started = NoStarted
    /\ runs = 0
UnitAside ==
    /\ change_listeners = <<>>
    /\ calls = 0
    /\ probe = NoProbe
\* before the server of the concurrency study has done anything
NoLast == [ev |-> "none"]
ConcAside ==
    /\ inv = [s \in {} |-> 0]
    /\ adapters = <<>>
    /\ instances = 0
    /\ factory_calls = 0
    /\ last = NoLast
AsideIdle == CfgAside /\ UnitAside /\ ConcAside

NoReq == [op |-> "none"]
NoResult == [kind |-> "none", content |-> <<>>, exc |-> NoExc]

Init ==
    /\ copy \in {"main", "core"}
    /\ templates_func \in BOOLEAN
    /\ content_func \in BOOLEAN
    /\ pc = "waiting"
    /\ req = NoReq
    /\ result = NoResult
    /\ trace = <<>>
    /\ LifeInit({"posix"})
    /\ RunAside
    /\ AsideIdle

CallTool ==
    /\ pc = "waiting"
    /\ \E name \in ToolNames, arguments \in Arguments, ctx \in Contexts :
        \E behaviour \in BehavioursFor(arguments) :
        \E failing \in SUBSET (1..Len(behaviour.ops)) :
            LET h == handle_call_tool(copy, name, arguments, ctx, behaviour, failing)
            IN /\ req' = [op |-> "call_tool", name |-> name, arguments |-> arguments,
                          ctx |-> ctx, behaviour |-> behaviour, failing |-> failing]
               /\ result' = h.result
               /\ trace' = h.events
    /\ pc' = "responded"
    /\ UNCHANGED <<copy, templates_func, content_func, lifeVars, runVars, asideVars>>

ListPrompts ==
    /\ pc = "waiting"
    /\ \E outcome \in PromptListOutcomes :
        LET h == handle_list_prompts(copy, templates_func, outcome)
        IN /\ req' = [op |-> "list_prompts", outcome |-> outcome]
           /\ result' = h.result
           /\ trace' = h.events
    /\ pc' = "responded"
    /\ UNCHANGED <<copy, templates_func, content_func, lifeVars, runVars, asideVars>>

GetPrompt ==
    /\ pc = "waiting"
    /\ \E name \in PromptNames, arguments \in Arguments :
        \E outcome \in PromptContentOutcomes(name, arguments) :
            LET h == handle_get_prompt(copy, content_func, name, arguments, outcome)
            IN /\ req' = [op |-> "get_prompt", name |-> name, arguments |-> arguments,
                          outcome |-> outcome]
               /\ result' = h.result
               /\ trace' = h.events
    /\ pc' = "responded"
    /\ UNCHANGED <<copy, templates_func, content_func, lifeVars, runVars, asideVars>>

\* the protocol layer sends the response and waits for the next request
Respond ==
    /\ pc = "responded"
    /\ pc' = "waiting"
    /\ req' = NoReq
    /\ result' = NoResult
    /\ trace' = <<>>
    /\ UNCHANGED <<copy, templates_func, content_func, lifeVars, runVars, asideVars>>

Next == CallTool \/ ListPrompts \/ GetPrompt \/ Respond

Spec == Init /\ [][Next]_vars

\* ------------------------------------------------ the process lifecycle
\* One run of the stdio transport: MCPServerFramework.__init__ has
\* installed handle_shutdown for SIGTERM, SIGINT and (win32) SIGBREAK.
Min(a, b) == IF a < b THEN a ELSE b

ExternalSignals == IF platform = "win32" THEN {"SIGINT", "SIGTERM", "SIGBREAK"}
                   ELSE {"SIGINT", "SIGTERM"}
\* os.kill(current_pid, signal.CTRL_BREAK_EVENT) raises SIGBREAK in the
\* process; elsewhere os.kill(current_pid, signal.SIGTERM)
SelfSignal == IF platform = "win32" THEN "SIGBREAK" ELSE "SIGTERM"

\* signal.signal handlers run in the main thread between two of its
\* instructions: a delivered signal is handled before the program's next step
HandlersDone == signals = {}

\* the finally block of _run_stdio_server
ClosingLog == {"closing", "closed"}

\* the ways run() ends: sys.exit(code), an exception nothing catches, or
\* a plain return
SysExit(code) == [kind |-> "sys_exit", exc |-> SystemExit(code)]
Uncaught(e) == [kind |-> "uncaught", exc |-> e]
Returned == [kind |-> "returned", exc |-> NoExc]

\* mistaken reading: every ending is a clean one
ExitStatusAlwaysZero(how) == 0

\* the exit status the interpreter gives the process
ExitStatus(how) ==
    CASE how = SysExit(0) -> 0
      [] how = SysExit(1) -> 1
      [] how.kind = "uncaught" -> 1
      [] OTHER -> 0

AttributeError == [cls |-> "AttributeError", arg |-> "module 'signal' has no attribute 'SIGBREAK'"]
RuntimeError == [cls |-> "RuntimeError", arg |-> "no running event loop"]

\* mistaken reading: a handler keeps what it is given until it is flushed
logger_record_buffered == <<"record">>

\* logger.info / logger.error with the handlers of _setup_logging: a
\* FileHandler and a StreamHandler, whose emit writes the record and
\* flushes the stream
logger_record == <<"record", "flush">>
\* for handler in logger.handlers: handler.flush()
handlers_flush == <<"flush">>

\* `except Exception as e: logger.error(...); raise` around a transport run
except_record(how) ==
    IF how.kind = "uncaught" /\ ExceptException(how.exc) THEN logger_record
    ELSE <<>>

\* the finally clauses of _run_stdio_server and of _run_sse_server
stdio_finally == logger_record \o handlers_flush \o logger_record \o handlers_flush
sse_finally == logger_record
\* the try around server.serve(): its except clause and its finally clause
serve_end(how) == except_record(how) \o logger_record

\* what the end of a transport run does to the log handlers; nothing when
\* run() ends outside a transport run
run_end(at, how) ==
    CASE at = "serving" -> except_record(how) \o stdio_finally
      [] at = "sse_start" -> except_record(how) \o sse_finally
      [] at = "sse_serving" -> serve_end(how) \o except_record(how) \o sse_finally
      [] OTHER -> <<>>

\* the process ends the way `how` says; leaving the serve loop runs the
\* finally block of _run_stdio_server
Exits(how, log) ==
    /\ proc' = "exited"
    /\ exit_code' = ExitStatus(how)
    /\ ended' = how
    /\ closing' = run_end(phase, how)
    /\ life_log' = log \cup (IF phase = "serving" THEN ClosingLog ELSE {})

\* the steps of startup, in order: create_module_manager_func(**params),
\* await module_manager.initialize(**params), MCPServerCore(...), and the
\* transport (stdio_server() or uvicorn's server.serve())
StartupSteps == {"factory", "initialize", "transport"}
StartupExceptions == {[cls |-> "ValueError", arg |-> "bad parameter"],
                      [cls |-> "RuntimeError", arg |-> "init failed"]}
\* mistaken reading: the core is built around the module before the
\* module is initialized
BuiltBefore_core_first(step) ==
    CASE step = "factory" -> {}
      [] step = "initialize" -> {"module", "core"}
      [] step = "transport" -> {"module", "initialized", "core"}
      [] OTHER -> {"module", "initialized", "core", "transport"}

\* what is in place when `step` is about to run: the module after the
\* factory, "initialized" after initialize, then the core, then the
\* transport
BuiltBefore(step) ==
    CASE step = "factory" -> {}
      [] step = "initialize" -> {"module"}
      [] step = "transport" -> {"module", "initialized", "core"}
      [] OTHER -> {"module", "initialized", "core", "transport"}

\* logger.error(f"服务器启动失败: {e}") / f"SSE 服务器启动失败: {e}"
StartupFailed(e) == "startup failed: " \o str(e)

\* mistaken reading: the failure is logged and not raised again
startup_swallows(failAt, e) ==
    [built |-> BuiltBefore(failAt),
     log |-> IF failAt = "nowhere" THEN {"started"} ELSE {StartupFailed(e)},
     raised |-> NoExc]

\* the try block both transports share: everything up to the failing step
\* is built, `except Exception as e` logs and re-raises e
startup(failAt, e) ==
    IF failAt = "nowhere"
    THEN [built |-> BuiltBefore(failAt), log |-> {"started"}, raised |-> NoExc]
    ELSE [built |-> BuiltBefore(failAt),
          log |-> IF ExceptException(e) THEN {StartupFailed(e)} ELSE {},
          raised |-> e]

\* _run_stdio_server up to the serve loop: the module is created and
\* initialized, the core built, the stdio streams opened and the parent
\* monitor started; an exception on the way is logged and re-raised
run_stdio_server_start ==
    /\ proc = "running" /\ phase = "constructed" /\ HandlersDone
    /\ cli_transport = "stdio"
    /\ \E failAt \in StartupSteps \cup {"nowhere"}, e \in StartupExceptions :
        LET r == startup(failAt, e) IN
        /\ built' = r.built
        /\ IF r.raised = NoExc
           THEN /\ phase' = "serving"
                /\ monitor' = "running"
                /\ life_log' = life_log \cup r.log
                /\ UNCHANGED <<proc, exit_code, ended, closing>>
           ELSE /\ proc' = "exited"
                /\ exit_code' = ExitStatus(Uncaught(r.raised))
                /\ ended' = Uncaught(r.raised)
                /\ closing' = run_end("serving", Uncaught(r.raised))
                /\ life_log' = life_log \cup r.log \cup ClosingLog
                /\ UNCHANGED <<phase, monitor>>
    /\ UNCHANGED <<reqVars, asideVars, platform, inflight, signals, tasks, shutdown_event,
                   parent, external, self_signals, cli_transport, stdin_in, stdout_out, config_written, conn, catalog,
                   hist, notes>>

RequestArrives ==
    /\ proc = "running" /\ phase = "serving" /\ ~inflight
    /\ inflight' = TRUE
    /\ UNCHANGED <<reqVars, asideVars, runVars, platform, phase, proc, exit_code, ended, closing, signals, tasks,
                   shutdown_event, life_log, parent, monitor, external, self_signals>>

RequestCompletes ==
    /\ proc = "running" /\ phase = "serving" /\ inflight /\ HandlersDone
    /\ inflight' = FALSE
    /\ UNCHANGED <<reqVars, asideVars, runVars, platform, phase, proc, exit_code, ended, closing, signals, tasks,
                   shutdown_event, life_log, parent, monitor, external, self_signals>>

\* the client closes the stream: app.run returns, the finally block runs
\* and run() calls sys.exit(0)
StreamCloses ==
    /\ proc = "running" /\ phase = "serving" /\ ~inflight /\ HandlersDone
    /\ Exits(SysExit(0), life_log)
    /\ UNCHANGED <<reqVars, asideVars, runVars, platform, phase, inflight, signals, tasks,
                   shutdown_event, parent, monitor, external, self_signals>>

\* the environment (a terminal, the parent, kill) signals the process.
\* handle_shutdown is the handler of the stdio run; while uvicorn serves
\* the SSE run it installs handlers of its own
DeliverSignal ==
    /\ proc = "running" /\ external < MaxExternal
    /\ cli_transport = "stdio"
    /\ \E sig \in ExternalSignals : signals' = signals \cup {sig}
    /\ external' = external + 1
    /\ UNCHANGED <<reqVars, asideVars, runVars, platform, phase, proc, exit_code, ended, closing, inflight, tasks,
                   shutdown_event, life_log, parent, monitor, self_signals>>

\* handle_shutdown(signum, frame), run by the interpreter in the main
\* thread.  Building signal_names evaluates signal.SIGBREAK, which only
\* exists on win32: elsewhere the handler raises AttributeError before it
\* logs anything.  The exception surfaces wherever the main thread is: it
\* leaves the event loop and ends the process, or an `except Exception`
\* of the request being handled absorbs it.  On win32 the handler logs and
\* calls asyncio.create_task, which needs the running loop.
handle_shutdown(sig) ==
    /\ proc = "running" /\ sig \in signals
    /\ signals' = signals \ {sig}
    /\ IF platform # "win32"
       THEN \E landing \in {"escapes"} \cup (IF inflight THEN {"absorbed"} ELSE {}) :
              IF landing = "escapes"
              THEN Exits(Uncaught(AttributeError), life_log) /\ UNCHANGED tasks
              ELSE UNCHANGED <<proc, exit_code, ended, closing, life_log, tasks>>
       ELSE IF phase = "serving"
            THEN /\ life_log' = life_log \cup {"signal:" \o sig, "graceful_start"}
                 /\ tasks' = tasks + 1
                 /\ UNCHANGED <<proc, exit_code, ended, closing>>
            ELSE \* RuntimeError: no running event loop
                 /\ Exits(Uncaught(RuntimeError),
                          life_log \cup {"signal:" \o sig, "graceful_start"})
                 /\ UNCHANGED tasks
    /\ UNCHANGED <<reqVars, asideVars, runVars, platform, phase, inflight, shutdown_event, parent,
                   monitor, external, self_signals>>

\* mistaken reading: a failing os.kill is logged and nothing more
trigger_shutdown_logs_only(log, killRaises) ==
    /\ shutdown_event' = TRUE
    /\ life_log' = IF killRaises THEN log \cup {"kill_failed"} ELSE log
    /\ signals' = IF killRaises THEN signals ELSE signals \cup {SelfSignal}
    /\ self_signals' = IF killRaises THEN self_signals
                       ELSE Min(self_signals + 1, MaxCount)
    /\ UNCHANGED <<proc, exit_code, ended, closing>>

\* mistaken reading: the own process is signalled and the event left alone
trigger_shutdown_signal_only(log, killRaises) ==
    /\ UNCHANGED shutdown_event
    /\ IF killRaises
       THEN /\ Exits(SysExit(1), log \cup {"kill_failed"})
            /\ UNCHANGED <<signals, self_signals>>
       ELSE /\ signals' = signals \cup {SelfSignal}
            /\ self_signals' = Min(self_signals + 1, MaxCount)
            /\ life_log' = log
            /\ UNCHANGED <<proc, exit_code, ended, closing>>

\* _trigger_shutdown: set the event, then signal the own process; if
\* os.kill raises, log the failure and sys.exit(1).  `log` is the local
\* log before the call.  (os.kill also raises what a Python handler of the
\* signal raises when the interpreter runs it before os.kill returns.)
trigger_shutdown(log, killRaises) ==
    /\ shutdown_event' = TRUE
    /\ IF killRaises
       THEN /\ Exits(SysExit(1), log \cup {"kill_failed"})
            /\ UNCHANGED <<signals, self_signals>>
       ELSE /\ signals' = signals \cup {SelfSignal}
            /\ self_signals' = Min(self_signals + 1, MaxCount)
            /\ life_log' = log
            /\ UNCHANGED <<proc, exit_code, ended, closing>>

\* the event loop runs a task created by handle_shutdown
trigger_shutdown_task ==
    /\ proc = "running" /\ tasks > 0 /\ HandlersDone
    /\ tasks' = tasks - 1
    /\ \E killRaises \in BOOLEAN : trigger_shutdown(life_log, killRaises)
    /\ UNCHANGED <<reqVars, asideVars, runVars, platform, phase, inflight, parent, monitor, external>>

\* the parent process exits, becomes a zombie, or can no longer be queried
ParentChanges ==
    /\ proc = "running" /\ parent = "alive" /\ cli_transport = "stdio"
    /\ parent' \in {"gone", "zombie", "denied"}
    /\ UNCHANGED <<reqVars, asideVars, runVars, platform, phase, proc, exit_code, ended, closing, inflight, signals,
                   tasks, shutdown_event, life_log, monitor, external, self_signals>>

\* mistaken reading: the loop goes on after it has triggered shutdown
monitor_parent_process_keeps_checking ==
    /\ proc = "running" /\ monitor = "running" /\ HandlersDone
    /\ IF parent = "alive"
       THEN UNCHANGED <<life_log, shutdown_event, signals, self_signals,
                        proc, exit_code, ended, closing>>
       ELSE \E killRaises \in BOOLEAN :
                 trigger_shutdown(life_log \cup {"parent_" \o parent}, killRaises)
    /\ UNCHANGED <<reqVars, asideVars, runVars, platform, phase, inflight, tasks, parent,
                   external, monitor>>

\* one iteration of the loop of _monitor_parent_process
monitor_parent_process ==
    /\ proc = "running" /\ monitor = "running" /\ HandlersDone
    /\ IF parent = "alive"
       THEN \E failed \in BOOLEAN :
              /\ life_log' = IF failed THEN life_log \cup {"monitor_error"} ELSE life_log
              /\ UNCHANGED <<monitor, shutdown_event, signals, self_signals,
                             proc, exit_code, ended, closing>>
       ELSE /\ monitor' = "stopped"
            /\ \E killRaises \in BOOLEAN :
                 trigger_shutdown(life_log \cup {"parent_" \o parent}, killRaises)
    /\ UNCHANGED <<reqVars, asideVars, runVars, platform, phase, inflight, tasks, parent, external>>

\* ---------------------------------------- run(): handshake and the SSE run
\* _handle_help_request: the JSON-RPC result printed for "help"; the start
\* method's input schema has transport, port and every module parameter
HelpProperties == {"transport", "port"}

\* mistaken reading: the schema lists the framework's own parameters only
handle_help_request_own_only(request_id, params) ==
    [jsonrpc |-> "2.0", id |-> request_id, transport |-> <<"stdio", "sse">>,
     methods |-> <<"help", "start">>, properties |-> HelpProperties]

handle_help_request(request_id, params) ==
    [jsonrpc |-> "2.0", id |-> request_id, transport |-> <<"stdio", "sse">>,
     methods |-> <<"help", "start">>, properties |-> HelpProperties \cup params]

\* print(f"处理 stdin 输入时出错: {e}")
StdinError == [error |-> "stdin"]

\* the try block of run() that reads standard input.  json.loads of text
\* that is not JSON raises a ValueError the block's `except Exception`
\* prints; sys.exit(0) after the help response raises SystemExit, which
\* that clause does not catch.  `port_given`: a start request settles the
\* port without asking.
stdin_handshake(inp, params) ==
    CASE inp.kind = "not_json" ->
           [printed |-> <<StdinError>>, raised |-> NoExc, port_given |-> FALSE]
      [] inp.kind = "help" /\ inp.has_id ->
           IF ExceptException(SystemExit(0))
           THEN [printed |-> <<handle_help_request(inp.id, params), StdinError>>,
                 raised |-> NoExc, port_given |-> FALSE]
           ELSE [printed |-> <<handle_help_request(inp.id, params)>>,
                 raised |-> SystemExit(0), port_given |-> FALSE]
      [] inp.kind = "start" ->
           [printed |-> <<>>, raised |-> NoExc, port_given |-> TRUE]
      [] OTHER ->
           [printed |-> <<>>, raised |-> NoExc, port_given |-> FALSE]

InvalidLiteral == [cls |-> "ValueError", arg |-> "invalid literal for int()"]

\* run() without --transport stdio, up to the call of _run_sse_server: the
\* handshake, the port and the module parameters (asked of the operator
\* when nothing gave them; int() of the answer may raise), _save_config
run_handshake ==
    /\ proc = "running" /\ phase = "constructed" /\ HandlersDone
    /\ cli_transport = "sse"
    /\ LET h == stdin_handshake(stdin_in, module_parameters) IN
       /\ stdout_out' = stdout_out \o h.printed
       /\ IF h.raised # NoExc
          THEN /\ Exits(SysExit(0), life_log)
               /\ UNCHANGED <<phase, stdin_in, config_written>>
          ELSE \E answersOk \in (IF h.port_given THEN {TRUE} ELSE BOOLEAN) :
                 IF answersOk
                 THEN /\ config_written' = TRUE
                      /\ phase' = "sse_start"
                      /\ stdin_in' = StdinDone
                      /\ UNCHANGED <<proc, exit_code, ended, closing, life_log>>
                 ELSE /\ Exits(Uncaught(InvalidLiteral), life_log)
                      /\ UNCHANGED <<phase, stdin_in, config_written>>
    /\ UNCHANGED <<reqVars, asideVars, platform, inflight, signals, tasks, shutdown_event,
                   parent, monitor, external, self_signals, cli_transport, built, conn, catalog, hist, notes>>

\* _run_sse_server up to server.serve(): the parent monitor is not started
run_sse_server_start ==
    /\ proc = "running" /\ phase = "sse_start"
    /\ \E failAt \in StartupSteps \cup {"nowhere"}, e \in StartupExceptions :
        LET r == startup(failAt, e) IN
        /\ built' = r.built
        /\ IF r.raised = NoExc
           THEN /\ phase' = "sse_serving"
                /\ life_log' = life_log \cup r.log
                /\ UNCHANGED <<proc, exit_code, ended, closing>>
           ELSE /\ Exits(Uncaught(r.raised), life_log \cup r.log \cup {"sse_closed"})
                /\ UNCHANGED phase
    /\ UNCHANGED <<reqVars, asideVars, platform, inflight, signals, tasks, shutdown_event,
                   parent, monitor, external, self_signals, cli_transport,
                   stdin_in, stdout_out, config_written, conn,
                   catalog, hist, notes>>

\* server.serve() returns, _run_sse_server and run() return
SseServerStops ==
    /\ proc = "running" /\ phase = "sse_serving"
    /\ Exits(Returned, life_log \cup {"web_closed", "sse_closed"})
    /\ UNCHANGED <<reqVars, asideVars, runVars, platform, phase, inflight, signals, tasks,
                   shutdown_event, parent, monitor, external, self_signals>>

\* GET / : handle_sse opens the streams of a new connection and runs the
\* shared server_core.app on them
SseConnect(s) ==
    /\ proc = "running" /\ phase = "sse_serving" /\ conn[s] = "none"
    /\ conn' = [conn EXCEPT ![s] = "open"]
    /\ UNCHANGED <<reqVars, asideVars, lifeVars, cli_transport, stdin_in, stdout_out, config_written, built, catalog, hist, notes>>

\* mistaken reading: a failing connection takes the others down with it
handle_sse_failure_tears_all(cn, s) ==
    [t \in Sessions |-> IF cn[t] = "open" THEN "failed" ELSE cn[t]]

\* handle_sse when app.run raises: the except clause logs and re-raises,
\* the finally clause logs; only this connection's streams are closed
handle_sse_failure(cn, s) == [cn EXCEPT ![s] = "failed"]

SseConnFails(s) ==
    /\ proc = "running" /\ phase = "sse_serving" /\ conn[s] = "open"
    /\ conn' = handle_sse_failure(conn, s)
    /\ life_log' = life_log \cup {"sse_conn_error", "sse_conn_closed"}
    /\ UNCHANGED <<reqVars, asideVars, platform, phase, proc, exit_code, ended, closing, inflight,
                   signals, tasks, shutdown_event, parent, monitor, external,
                   self_signals, cli_transport, stdin_in, stdout_out, config_written, built, catalog, hist, notes>>

\* mistaken reading: every connection is served from the catalog published
\* at startup
handle_list_tools_at_startup(cat) == [result |-> InitialCatalog, catalog |-> cat]

\* mistaken reading: listing resets the module's catalog
handle_list_tools_resets(cat) == [result |-> cat, catalog |-> InitialCatalog]

\* handle_list_tools: return self.module_manager.get_tools(); `catalog` is
\* the module's state after the call
handle_list_tools(cat) == [result |-> cat, catalog |-> cat]

SseListTools(s) ==
    /\ proc = "running" /\ phase = "sse_serving" /\ conn[s] = "open"
    /\ LET r == handle_list_tools(catalog) IN
       /\ catalog' = r.catalog
       /\ hist' = [prev |-> hist.cur, cur |-> r.result,
                   between |-> hist.changer # NoSession, changer |-> NoSession,
                   cross |-> hist.changer \notin {NoSession, s}]
    /\ UNCHANGED <<reqVars, asideVars, lifeVars, cli_transport, stdin_in, stdout_out, config_written, built, conn, notes>>

\* BaseModuleManager.notify_changes calls the listener on_data_changed,
\* which creates a task for notify_resources_changed and returns; the task
\* carries the request context of the code that created it
on_data_changed(pending, ctx) == pending \cup {ctx}

\* what a tool call does to the module: nothing, a catalog change, or a
\* catalog change followed by self.notify_changes()
ToolEffects == {"none", "change", "change_notify"}
Toggle(cat) == IF "extra" \in cat THEN cat \ {"extra"} ELSE cat \cup {"extra"}

SseCallTool(s) ==
    /\ proc = "running" /\ phase = "sse_serving" /\ conn[s] = "open"
    /\ \E effect \in ToolEffects :
        /\ effect = "change_notify" => s \notin notes
        /\ catalog' = IF effect = "none" THEN catalog ELSE Toggle(catalog)
        /\ notes' = IF effect = "change_notify" THEN on_data_changed(notes, s)
                    ELSE notes
        /\ hist' = IF effect = "none" THEN hist ELSE [hist EXCEPT !.changer = s]
    /\ UNCHANGED <<reqVars, asideVars, lifeVars, cli_transport, stdin_in, stdout_out, config_written, built, conn>>

\* a task of the module's own calls self.notify_changes() outside any request
ModuleNotifies ==
    /\ proc = "running" /\ phase = "sse_serving" /\ NoSession \notin notes
    /\ notes' = on_data_changed(notes, NoSession)
    /\ UNCHANGED <<reqVars, asideVars, lifeVars, cli_transport, stdin_in, stdout_out, config_written, built, conn, catalog, hist>>

LookupError == [cls |-> "LookupError", arg |-> "request_ctx"]

\* what `await app.request_context.session.send_resource_list_changed()`
\* raises: LookupError outside a request, the stream's error when the
\* connection is gone or the send fails, nothing otherwise
SendChangedRaises(ctx, cn, sendRaises) ==
    IF ctx = NoSession THEN LookupError
    ELSE IF cn[ctx] # "open" \/ sendRaises THEN SendError
    ELSE NoExc

\* mistaken reading: the send is not guarded
notify_resources_changed_unguarded(ctx, cn, sendRaises) ==
    LET e == SendChangedRaises(ctx, cn, sendRaises) IN
    [sent |-> e = NoExc, log |-> {"notify_debug"}, exc |-> e]

\* notify_resources_changed: logger.debug, then the send inside
\* try / except Exception, which logs the failure at error level
notify_resources_changed(ctx, cn, sendRaises) ==
    LET e == SendChangedRaises(ctx, cn, sendRaises) IN
    IF e = NoExc
    THEN [sent |-> TRUE, log |-> {"notify_debug"}, exc |-> NoExc]
    ELSE IF ExceptException(e)
         THEN [sent |-> FALSE, log |-> {"notify_debug", "notify_failed"}, exc |-> NoExc]
         ELSE [sent |-> FALSE, log |-> {"notify_debug"}, exc |-> e]

\* the event loop runs a task created by on_data_changed
NotifyTask(ctx) ==
    /\ proc = "running" /\ phase = "sse_serving" /\ ctx \in notes
    /\ notes' = notes \ {ctx}
    /\ \E sendRaises \in BOOLEAN :
        LET r == notify_resources_changed(ctx, conn, sendRaises) IN
        \* an exception that leaves the task is reported by the event
        \* loop ("Task exception was never retrieved")
        /\ life_log' = life_log \cup r.log
                          \cup (IF r.exc = NoExc THEN {} ELSE {"task_exception"})
    /\ UNCHANGED <<reqVars, asideVars, platform, phase, proc, exit_code, ended, closing, inflight,
                   signals, tasks, shutdown_event, parent, monitor, external,
                   self_signals, cli_transport, stdin_in, stdout_out, config_written, built, conn, catalog, hist>>

NextLife ==
    \/ run_stdio_server_start
    \/ RequestArrives
    \/ RequestCompletes
    \/ StreamCloses
    \/ DeliverSignal
    \/ \E sig \in signals : handle_shutdown(sig)
    \/ trigger_shutdown_task
    \/ ParentChanges
    \/ monitor_parent_process

\* the lifecycle is that of src/MCPServerFramework.py (core.py installs no
\* signal handler); the request handlers are left aside
CoreAside ==
    /\ copy = "main"
    /\ templates_func = FALSE
    /\ content_func = FALSE
    /\ pc = "waiting"
    /\ req = NoReq
    /\ result = NoResult
    /\ trace = <<>>

InitLife == CoreAside /\ LifeInit({"posix", "win32"}) /\ RunAside /\ AsideIdle
InitWin32 == CoreAside /\ LifeInit({"win32"}) /\ RunAside /\ AsideIdle

SpecLife == InitLife /\ [][NextLife]_vars

\* a run of either transport, from the call of run()
InitRun == CoreAside /\ LifeInit({"posix", "win32"}) /\ RunInit /\ AsideIdle

\* startup and exit; of the SSE run, the connections it accepts
NextRun ==
    \/ NextLife
    \/ run_handshake
    \/ run_sse_server_start
    \/ SseServerStops
    \/ \E s \in Sessions : SseConnect(s)

SpecRun == InitRun /\ [][NextRun]_vars

\* the SSE run once server.serve() accepts connections
InitSse ==
    /\ CoreAside
    /\ platform = "posix"
    /\ phase = "sse_serving"
    /\ proc = "running"
    /\ exit_code = NoExit
    /\ inflight = FALSE
    /\ signals = {}
    /\ tasks = 0
    /\ shutdown_event = FALSE
    /\ life_log = startup("nowhere", NoExc).log
    /\ parent = "alive"
    /\ monitor = "off"
    /\ external = 0
    /\ self_signals = 0
    /\ ended = Running
    /\ closing = <<>>
    /\ cli_transport = "sse"
    /\ stdin_in = StdinDone
    /\ stdout_out = <<>>
    /\ config_written = TRUE
    /\ built = startup("nowhere", NoExc).built
    /\ conn = [s \in Sessions |-> "none"]
    /\ catalog = InitialCatalog
    /\ hist = NoHist
    /\ notes = {}
    /\ AsideIdle

NextSse ==
    \/ SseServerStops
    \/ \E s \in Sessions : SseConnect(s)
    \/ \E s \in Sessions : SseConnFails(s)
    \/ \E s \in Sessions : SseListTools(s)
    \/ \E s \in Sessions : SseCallTool(s)
    \/ ModuleNotifies
    \/ \E ctx \in notes : NotifyTask(ctx)

SpecSse == InitSse /\ [][NextSse]_vars

\* The interpreter runs the handler of a delivered signal, the event loop
\* runs the tasks it was given and the monitor's loop, a request being
\* handled completes, and startup proceeds.  Nothing is assumed of the
\* environment (signals, the parent, the client closing the stream).
LifeFairness ==
    /\ WF_vars(\E sig \in signals : handle_shutdown(sig))
    /\ WF_vars(trigger_shutdown_task)
    /\ WF_vars(monitor_parent_process)
    /\ WF_vars(RequestCompletes)
    /\ WF_vars(run_stdio_server_start)

SpecLifeFair == SpecLife /\ LifeFairness

\* the same on win32 alone
SpecWin32Fair == InitWin32 /\ [][NextLife]_vars /\ LifeFairness

\* ---------------------------------------------- run(): what gets started
\* how many runs of the program, one after the other, are studied
MaxRuns == 2

\* the port run() falls back on
BuiltinPort == 8080
\* module_parameters["greeting"]["default"] of helloword.py
greeting_default == "Hello"

\* argparse: --transport (default "sse"), --port, --greeting
ArgsInputs ==
    [transport : {"stdio", "sse"}, port : {None, Some(9000)},
     greeting : {None, Some("Hi")}]

\* stdin_config["params"] of a "start" request: each key present or not
NoParams == [transport |-> None, port |-> None, greeting |-> None]
StartParams ==
    [transport : {None, Some("sse"), Some("stdio")}, port : {None, Some(7000)},
     greeting : {None, Some("Yo")}]
\* standard input of a run that gets past the handshake: a terminal,
\* nothing, text that is not JSON, or a "start" request
HandshakeInputs ==
    {[kind |-> k, params |-> NoParams] : k \in {"tty", "empty", "not_json"}}
        \cup {[kind |-> "start", params |-> p] : p \in StartParams}

\* what the operator types at the port prompt and at the parameter prompt
AnswerInputs == [port : {"", "8123", "abc"}, greeting : {"", "Hey"}]
NoAnswers == [port |-> "", greeting |-> ""]

\* int(text) for the port: the decimal numerals of the ports in play
PortRange == {7000, 8080, 8123, 9000}
int(text) ==
    IF \E n \in PortRange : ToString(n) = text
    THEN [raised |-> NoExc, value |-> CHOOSE n \in PortRange : ToString(n) = text]
    ELSE [raised |-> [cls |-> "ValueError",
                      arg |-> "invalid literal for int() with base 10: '"
                              \o text \o "'"],
          value |-> 0]

\* _load_config: {} when the file is missing or cannot be parsed
EmptyConfig == [port |-> None, greeting |-> None]
load_config(file) == IF file.kind = "saved" THEN file.data ELSE EmptyConfig

\* _save_config(config): json.dump to config.json
save_config(config) == [kind |-> "saved", data |-> config]

\* _get_user_input(prompt, default): input() reads a line of the terminal;
\* when standard input was a pipe it has been read to its end, input()
\* raises EOFError and the default is returned
get_user_input(stdin_kind, answer, default) ==
    IF stdin_kind # "tty" THEN default
    ELSE IF answer = "" THEN default ELSE answer

\* mistaken reading: a module parameter not given on the command line is
\* started with its declared default
StartedStdio_defaulted(args) ==
    [kind |-> "run", transport |-> "stdio", port |-> None,
     greeting |-> IF args.greeting = None THEN Some(greeting_default)
                  ELSE args.greeting,
     prompts |-> {}, saved |-> FALSE, raised |-> NoExc]

\* a run that ends in _run_stdio_server: nothing is read from or written to
\* the configuration, the module gets the flags that were given
StartedStdio(args) ==
    [kind |-> "run", transport |-> "stdio", port |-> None,
     greeting |-> args.greeting, prompts |-> {}, saved |-> FALSE,
     raised |-> NoExc]

\* run(): from the parsed command line to the server that is started
run_resolve(args, stdin, answers, last_config) ==
    IF args.transport = "stdio" THEN StartedStdio(args)
    ELSE
    LET is_start == stdin.kind = "start"
        cmd_params == stdin.params
        \* transport = cmd_params.get("transport", "sse")
        hs_transport == IF cmd_params.transport = None THEN "sse"
                        ELSE cmd_params.transport[1]
        hs_port == IF is_start /\ hs_transport = "sse"
                   THEN (IF cmd_params.port = None THEN Some(BuiltinPort)
                         ELSE cmd_params.port)
                   ELSE None
        hs_greeting == IF is_start THEN cmd_params.greeting ELSE None
        \* transport = args.transport
        transport == args.transport
        port1 == IF hs_port # None THEN hs_port ELSE args.port
        default_port == ToString(IF last_config.port = None THEN BuiltinPort
                                 ELSE last_config.port[1])
        port_int == int(get_user_input(stdin.kind, answers.port, default_port))
        saved_value == last_config.greeting
        ask_greeting == hs_greeting = None /\ args.greeting = None
                        /\ transport = "sse"
        value == get_user_input(stdin.kind, answers.greeting,
                                IF saved_value # None THEN saved_value[1]
                                ELSE greeting_default)
        greeting == IF hs_greeting # None THEN hs_greeting
                    ELSE IF args.greeting # None THEN args.greeting
                    ELSE Some(value)
    IN IF port1 = None /\ port_int.raised # NoExc
       THEN [kind |-> "run", transport |-> "none", port |-> None,
             greeting |-> None, prompts |-> {"port"}, saved |-> FALSE,
             raised |-> port_int.raised]
       ELSE [kind |-> "run", transport |-> transport,
             port |-> IF port1 # None THEN port1 ELSE Some(port_int.value),
             greeting |-> greeting,
             prompts |-> (IF port1 = None THEN {"port"} ELSE {})
                         \cup (IF ask_greeting THEN {"greeting"} ELSE {}),
             saved |-> TRUE, raised |-> NoExc]

\* one run of the program, from a command line to the server it starts
RunOnce ==
    /\ runs < MaxRuns
    /\ \E args \in ArgsInputs, stdin \in HandshakeInputs :
       \E answers \in (IF stdin.kind = "tty" /\ args.transport # "stdio"
                       THEN AnswerInputs ELSE {NoAnswers}) :
        LET last_config == load_config(config_file)
            r == run_resolve(args, stdin, answers, last_config)
        IN /\ launch' = [kind |-> "run", args |-> args, stdin |-> stdin,
                         answers |-> answers, config |-> last_config]
           /\ started' = r
           /\ config_file' = IF r.saved
                             THEN save_config([port |-> r.port,
                                               greeting |-> r.greeting])
                             ELSE config_file
    /\ runs' = runs + 1
    /\ UNCHANGED <<reqVars, lifeVars, runVars, unitVars, concVars>>

InitCfg ==
    /\ CoreAside /\ LifeInit({"posix"}) /\ RunAside /\ UnitAside /\ ConcAside
    /\ config_file \in {[kind |-> "missing"], [kind |-> "unreadable"]}
    /\ launch = NoLaunch
    /\ started = NoStarted
    /\ runs = 0
NextCfg == RunOnce
SpecCfg == InitCfg /\ [][NextCfg]_vars

\* ------------------------------- BaseModuleManager on its own, HelloWorld
\* how many add_change_listener calls are followed
MaxListeners == 3

\* the callables registered: MCPServerCore.on_data_changed, and the
\* test_listener of tests/test_core.py
Listeners == {"on_data_changed", "test_listener"}

\* mistaken reading: a listener that is already registered is not added
add_change_listener_once(listeners, listener) ==
    IF \E i \in 1..Len(listeners) : listeners[i] = listener THEN listeners
    ELSE Append(listeners, listener)

\* BaseModuleManager.add_change_listener: self.change_listeners.append(listener)
add_change_listener(listeners, listener) == Append(listeners, listener)

\* the loop of BaseModuleManager.notify_changes from listener i on: the
\* listeners called, in order, and the exception that ended the loop (the
\* loop has no try/except: the first listener that raises ends it)
RECURSIVE notify_changes_from(_, _, _)
notify_changes_from(listeners, raising, i) ==
    IF i > Len(listeners) THEN [ran |-> <<>>, raised |-> NoExc]
    ELSE IF i \in raising
    THEN [ran |-> <<listeners[i]>>, raised |-> RuntimeError]
    ELSE LET rest == notify_changes_from(listeners, raising, i + 1)
         IN [ran |-> <<listeners[i]>> \o rest.ran, raised |-> rest.raised]

\* BaseModuleManager.notify_changes: for listener in self.change_listeners:
\* listener()
notify_changes(listeners, raising) == notify_changes_from(listeners, raising, 1)

NotImplemented(method) ==
    [cls |-> "NotImplementedError", arg |-> "subclass must implement " \o method]

\* mistaken reading: the base call_tool answers with an empty result
BaseModuleManager_call_tool_empty(name, arguments) == Return(<<>>)

\* BaseModuleManager.initialize / get_tools / call_tool
BaseModuleManager_initialize == Raise(NotImplemented("initialize"))
BaseModuleManager_get_tools == Raise(NotImplemented("get_tools"))
BaseModuleManager_call_tool(name, arguments) == Raise(NotImplemented("call_tool"))

\* the names given to a tool
HelloNames == {"Ada", "Bob", "World"}
\* arguments of a tool call: None, {}, {"name": n}, a dict without "name"
HelloArguments ==
    {NoneArgs, EmptyArgs, [tag |-> "dict", items |-> [k \in {"lang"} |-> "en"]]}
        \cup {[tag |-> "dict", items |-> [k \in {"name"} |-> n]] : n \in HelloNames}

\* arguments.get(key, default)
dict_get(arguments, key, default) ==
    IF key \in DOMAIN arguments.items THEN arguments.items[key] ELSE default

\* mistaken reading: the greeting does not use the name that was given
HelloWorld_call_tool_greets_world(name, arguments) ==
    IF name = "hello"
    THEN Returns([json |-> TRUE, key |-> "message", val |-> "Hello, World!"])
    ELSE Returns([json |-> TRUE, key |-> "error", val |-> "unknown tool"])

\* HelloWorldModuleManager.call_tool
HelloWorld_call_tool(name, arguments) ==
    IF name = "hello"
    THEN Returns([json |-> TRUE, key |-> "message",
                  val |-> "Hello, " \o dict_get(arguments, "name", "World") \o "!"])
    ELSE Returns([json |-> TRUE, key |-> "error", val |-> "unknown tool"])

\* ------------------------------------- ExtendedRequestContext.__getattr__
\* what the class and __init__ define on the adapter itself
AdapterDefines ==
    {"_original_ctx", "info", "error", "warning", "debug", "report_progress"}
\* the names looked up, and the attributes an original context may have
LookupNames == {"session", "request_id", "meta", "info", "report_progress"}
OriginalAttrs == {"session", "request_id", "meta", "info"}
OriginalContexts ==
    {[n \in A |-> "original." \o n] : A \in SUBSET OriginalAttrs}

Got(v) == [raised |-> NoExc, value |-> v]
NoAttribute(name) ==
    [raised |-> [cls |-> "AttributeError",
                 arg |-> "'RequestContext' object has no attribute '"
                         \o name \o "'"],
     value |-> ""]

\* getattr(obj, name) on the original context
getattr(obj, name) ==
    IF name \in DOMAIN obj THEN Got(obj[name]) ELSE NoAttribute(name)

\* mistaken reading: a name the original lacks yields None
ExtendedRequestContext_getattr_none(original_ctx, name) ==
    IF name \in DOMAIN original_ctx THEN Got(original_ctx[name]) ELSE Got("None")

\* ExtendedRequestContext.__getattr__(name)
ExtendedRequestContext_getattr(original_ctx, name) == getattr(original_ctx, name)

\* ExtendedRequestContext(original_ctx).<name>: Python calls __getattr__
\* only for a name the instance and its class do not define
ExtendedRequestContext_lookup(original_ctx, name) ==
    IF name \in AdapterDefines THEN Got("ExtendedRequestContext." \o name)
    ELSE ExtendedRequestContext_getattr(original_ctx, name)

\* ------------------------------ handle_call_tool with its request context
\* how long the module's script of context calls is in these requests
MaxProbeScript == 1

\* app.request_context: the context of the request being handled, None
\* outside any request (the property then raises LookupError)
RequestContexts == {None} \cup {Some(ctx) : ctx \in Contexts}

ProbeBehaviours ==
    {[ops |-> o, outcome |-> r] :
        o \in UNION {[1..n -> CtxOps] : n \in 0..MaxProbeScript}, r \in ToolOutcomes}

\* mistaken reading: the request context is obtained before the try block
handle_call_tool_request_unprotected(cp, name, arguments, request_ctx, behaviour, failing) ==
    IF request_ctx = None
    THEN [events |-> <<>>, result |-> Raise(LookupError)]
    ELSE handle_call_tool(cp, name, arguments, request_ctx[1], behaviour, failing)

\* handle_call_tool as registered: the arguments are validated first, then
\* app.request_context is read inside the try block, then the module is
\* called with the adapter and its result serialized
handle_call_tool_request(cp, name, arguments, request_ctx, behaviour, failing) ==
    IF ~Truthy(arguments)
    THEN CallToolExcept(name, [cls |-> "ValueError", arg |-> "Missing arguments"], <<>>)
    ELSE IF request_ctx = None
    THEN CallToolExcept(name, LookupError, <<>>)
    ELSE handle_call_tool(cp, name, arguments, request_ctx[1], behaviour, failing)

\* --------------------------------------------------------- their actions
\* a call_tool request about to be handled, inside or outside a request
\* context
ToolRequests ==
    {[op |-> "request", cp |-> cp, name |-> name, arguments |-> arguments,
      request_ctx |-> request_ctx, behaviour |-> behaviour, failing |-> failing] :
        cp \in {"main", "core"}, name \in ToolNames, arguments \in Arguments,
        request_ctx \in RequestContexts,
        behaviour \in ProbeBehaviours, failing \in SUBSET (1..MaxProbeScript)}

\* the request is handled
HandleCallTool ==
    /\ probe.op = "request"
    /\ LET h == handle_call_tool_request(probe.cp, probe.name, probe.arguments,
                                         probe.request_ctx, probe.behaviour,
                                         probe.failing)
       IN probe' = [op |-> "handle_call_tool", cp |-> probe.cp, name |-> probe.name,
                    arguments |-> probe.arguments,
                    request_ctx |-> probe.request_ctx,
                    behaviour |-> probe.behaviour, failing |-> probe.failing,
                    result |-> h.result, events |-> h.events]
    /\ UNCHANGED <<reqVars, lifeVars, runVars, cfgVars, concVars, change_listeners, calls>>

AddChangeListener ==
    /\ calls < MaxListeners
    /\ \E listener \in Listeners :
        change_listeners' = add_change_listener(change_listeners, listener)
    /\ calls' = calls + 1
    /\ UNCHANGED <<reqVars, lifeVars, runVars, cfgVars, concVars, probe>>

NotifyChanges ==
    /\ \E raising \in SUBSET (1..Len(change_listeners)) :
        LET r == notify_changes(change_listeners, raising)
        IN probe' = [op |-> "notify_changes", held |-> change_listeners,
                     raising |-> raising, ran |-> r.ran, raised |-> r.raised]
    /\ UNCHANGED <<reqVars, lifeVars, runVars, cfgVars, concVars, change_listeners, calls>>

BaseCall ==
    /\ \E r \in {[op |-> "initialize", result |-> BaseModuleManager_initialize],
                 [op |-> "get_tools", result |-> BaseModuleManager_get_tools],
                 [op |-> "get_prompt_templates",
                  result |-> BaseModuleManager_get_prompt_templates]} :
        probe' = r
    /\ UNCHANGED <<reqVars, lifeVars, runVars, cfgVars, concVars, change_listeners, calls>>

BaseCallTool ==
    /\ \E name \in ToolNames, arguments \in Arguments :
        probe' = [op |-> "base_call_tool", name |-> name, arguments |-> arguments,
                  result |-> BaseModuleManager_call_tool(name, arguments)]
    /\ UNCHANGED <<reqVars, lifeVars, runVars, cfgVars, concVars, change_listeners, calls>>

BaseGetPromptContent ==
    /\ \E name \in PromptNames, arguments \in Arguments :
        probe' = [op |-> "get_prompt_content", name |-> name,
                  arguments |-> arguments,
                  result |-> BaseModuleManager_get_prompt_content(name, arguments)]
    /\ UNCHANGED <<reqVars, lifeVars, runVars, cfgVars, concVars, change_listeners, calls>>

\* a call_tool request served by MCPServerCore over HelloWorldModuleManager
HelloCall ==
    /\ \E name \in ToolNames, arguments \in HelloArguments, ctx \in Contexts :
        LET behaviour == [ops |-> <<>>,
                          outcome |-> HelloWorld_call_tool(name, arguments)]
            h == handle_call_tool("main", name, arguments, ctx, behaviour, {})
        IN probe' = [op |-> "call_tool", name |-> name, arguments |-> arguments,
                     result |-> h.result]
    /\ UNCHANGED <<reqVars, lifeVars, runVars, cfgVars, concVars, change_listeners, calls>>

CtxLookup ==
    /\ \E original_ctx \in OriginalContexts, name \in LookupNames :
        probe' = [op |-> "getattr", original |-> original_ctx, name |-> name,
                  result |-> ExtendedRequestContext_lookup(original_ctx, name)]
    /\ UNCHANGED <<reqVars, lifeVars, runVars, cfgVars, concVars, change_listeners, calls>>

InitUnit == CoreAside /\ LifeInit({"posix"}) /\ RunAside /\ AsideIdle
NextUnit ==
    \/ AddChangeListener
    \/ NotifyChanges
    \/ BaseCall
    \/ BaseCallTool
    \/ BaseGetPromptContent
    \/ HelloCall
    \/ CtxLookup
SpecUnit == InitUnit /\ [][NextUnit]_vars

\* handle_call_tool on its own: every request, handled once
InitTool ==
    /\ CoreAside /\ LifeInit({"posix"}) /\ RunAside
    /\ CfgAside /\ ConcAside
    /\ change_listeners = <<>>
    /\ calls = 0
    /\ probe \in {r \in ToolRequests : r.failing \subseteq 1..Len(r.behaviour.ops)}
NextTool == HandleCallTool
SpecTool == InitTool /\ [][NextTool]_vars

\* ------------------------------------ one SSE server, several sessions
\* how many adapters and module objects are followed
MaxAdapters == 3
MaxInstances == 3

\* self.module_manager: the object create_module_manager_func returned,
\* the first module manager constructed in the run
TheModule == 1

\* who answers handle_list_tools and handle_call_tool
module_manager_answer(n) == [instance |-> TheModule, instances |-> n]

\* who answers a prompt request: with an override the lambda of
\* helloword.py, which constructs HelloWorldModuleManager() and asks that
\* new object; without one self.module_manager
prompt_answer(override, n) ==
    IF override THEN [instance |-> n + 1, instances |-> n + 1]
    ELSE [instance |-> TheModule, instances |-> n]

\* mistaken reading: the core keeps one adapter and rebinds it to the
\* request context of the latest invocation
ExtendedRequestContext_shared(made, ctx) ==
    [adapters |-> <<ctx>>, id |-> 1]

\* extended_ctx = ExtendedRequestContext(app.request_context): a new object
\* wrapping the request context of the running invocation
ExtendedRequestContext_new(made, ctx) ==
    [adapters |-> Append(made, ctx), id |-> Len(made) + 1]

\* self._original_ctx.session of an adapter
adapter_session(made, id) == made[id]

\* mistaken reading: a change is announced to every open session
changed_recipients_broadcast(ctx, cn, sendRaises) ==
    {s \in Sessions : cn[s] = "open"}

\* the sessions a notify_resources_changed task reaches: the session of
\* the request context the task was created in, when the send succeeds
changed_recipients(ctx, cn, sendRaises) ==
    IF notify_resources_changed(ctx, cn, sendRaises).sent THEN {ctx} ELSE {}

\* _run_sse_server up to server.serve(): the factory is called, the
\* module initialized, the core built
ConcServe ==
    /\ proc = "running" /\ phase = "sse_start"
    /\ phase' = "sse_serving"
    /\ built' = startup("nowhere", NoExc).built
    /\ life_log' = life_log \cup startup("nowhere", NoExc).log
    /\ factory_calls' = factory_calls + 1
    /\ instances' = instances + 1
    /\ UNCHANGED <<reqVars, cfgVars, unitVars, platform, proc, exit_code, ended, closing,
                   inflight, signals, tasks, shutdown_event, parent, monitor,
                   external, self_signals, cli_transport, stdin_in, stdout_out,
                   config_written, conn, catalog, hist, notes, inv, adapters, last>>

Serving(s) == proc = "running" /\ phase = "sse_serving" /\ conn[s] = "open"

\* a call_tool request of session s reaches handle_call_tool
ConcCallTool(s) ==
    /\ Serving(s) /\ inv[s] = 0 /\ Len(adapters) < MaxAdapters
    /\ LET a == ExtendedRequestContext_new(adapters, s)
           m == module_manager_answer(instances)
       IN /\ adapters' = a.adapters
          /\ inv' = [inv EXCEPT ![s] = a.id]
          /\ last' = [ev |-> "request", op |-> "call_tool", session |-> s,
                      instance |-> m.instance, adapter |-> a.id]
    /\ UNCHANGED <<reqVars, cfgVars, unitVars, lifeVars, runVars, instances,
                   factory_calls>>

\* the module, inside the invocation of session s, logs or reports
\* progress through the ctx it was given
ConcEmit(s) ==
    /\ Serving(s) /\ inv[s] # 0
    /\ last' = [ev |-> "notification", session |-> s, adapter |-> inv[s],
                to |-> adapter_session(adapters, inv[s])]
    /\ UNCHANGED <<reqVars, cfgVars, unitVars, lifeVars, runVars, inv, adapters,
                   instances, factory_calls>>

\* the module, inside the invocation of session s, calls notify_changes
ConcNotifyChanges(s) ==
    /\ Serving(s) /\ inv[s] # 0 /\ s \notin notes
    /\ notes' = on_data_changed(notes, s)
    /\ UNCHANGED <<reqVars, cfgVars, unitVars, lifeVars, cli_transport, stdin_in,
                   stdout_out, config_written, built, conn, catalog, hist, concVars>>

\* the invocation of session s returns
ConcReturn(s) ==
    /\ Serving(s) /\ inv[s] # 0
    /\ inv' = [inv EXCEPT ![s] = 0]
    /\ UNCHANGED <<reqVars, cfgVars, unitVars, lifeVars, runVars, adapters,
                   instances, factory_calls, last>>

ConcListTools(s) ==
    /\ Serving(s)
    /\ LET m == module_manager_answer(instances)
       IN last' = [ev |-> "request", op |-> "list_tools", session |-> s,
                   instance |-> m.instance, adapter |-> 0]
    /\ UNCHANGED <<reqVars, cfgVars, unitVars, lifeVars, runVars, inv, adapters,
                   instances, factory_calls>>

\* a list_prompts or get_prompt request of session s
ConcPrompt(s) ==
    /\ Serving(s) /\ instances < MaxInstances
    /\ \E op \in {"list_prompts", "get_prompt"} :
        LET m == prompt_answer(IF op = "list_prompts" THEN templates_func
                               ELSE content_func, instances)
        IN /\ instances' = m.instances
           /\ last' = [ev |-> "request", op |-> op, session |-> s,
                       instance |-> m.instance, adapter |-> 0]
    /\ UNCHANGED <<reqVars, cfgVars, unitVars, lifeVars, runVars, inv, adapters,
                   factory_calls>>

\* the event loop runs a task created by on_data_changed
ConcNotifyTask(ctx) ==
    /\ proc = "running" /\ phase = "sse_serving" /\ ctx \in notes
    /\ notes' = notes \ {ctx}
    /\ \E sendRaises \in BOOLEAN :
        last' = [ev |-> "changed", ctx |-> ctx,
                 to |-> changed_recipients(ctx, conn, sendRaises)]
    /\ UNCHANGED <<reqVars, cfgVars, unitVars, lifeVars, cli_transport, stdin_in,
                   stdout_out, config_written, built, conn, catalog, hist,
                   inv, adapters, instances, factory_calls>>

\* helloword.py run with or without the prompt overrides, about to call
\* _run_sse_server
InitConc ==
    /\ copy = "main"
    /\ templates_func \in BOOLEAN
    /\ content_func = templates_func
    /\ pc = "waiting" /\ req = NoReq /\ result = NoResult /\ trace = <<>>
    /\ platform = "posix"
    /\ phase = "sse_start"
    /\ proc = "running"
    /\ exit_code = NoExit
    /\ inflight = FALSE
    /\ signals = {}
    /\ tasks = 0
    /\ shutdown_event = FALSE
    /\ life_log = {}
    /\ parent = "alive"
    /\ monitor = "off"
    /\ external = 0
    /\ self_signals = 0
    /\ ended = Running
    /\ closing = <<>>
    /\ cli_transport = "sse"
    /\ stdin_in = StdinDone
    /\ stdout_out = <<>>
    /\ config_written = TRUE
    /\ built = {}
    /\ conn = [s \in Sessions |-> "none"]
    /\ catalog = InitialCatalog
    /\ hist = NoHist
    /\ notes = {}
    /\ CfgAside /\ UnitAside
    /\ inv = [s \in Sessions |-> 0]
    /\ adapters = <<>>
    /\ instances = 0
    /\ factory_calls = 0
    /\ last = NoLast

NextConc ==
    \/ ConcServe
    \/ \E s \in Sessions : SseConnect(s)
    \/ \E s \in Sessions : ConcCallTool(s)
    \/ \E s \in Sessions : ConcEmit(s)
    \/ \E s \in Sessions : ConcNotifyChanges(s)
    \/ \E s \in Sessions : ConcReturn(s)
    \/ \E s \in Sessions : ConcListTools(s)
    \/ \E s \in Sessions : ConcPrompt(s)
    \/ ModuleNotifies
    \/ \E ctx \in notes : ConcNotifyTask(ctx)
SpecConc == InitConc /\ [][NextConc]_vars

\* ------------------------------------------------------------- the claims
Handled(op) == pc = "responded" /\ req.op = op
\* the module's call_tool was reached by the request handled last
Reached == Handled("call_tool") /\ Truthy(req.arguments)
\* the events of the i-th ctx call of the module's script
CallEvents(i) == SelectSeq(trace, LAMBDA x : x.call = i)
Count(seq, P(_)) == Len(SelectSeq(seq, P))
IsLogOp(o) == o.m \in LogLevels

\* C1: a tool invocation whose arguments are None or empty returns one text
\* item containing "Missing arguments", never calls the module's call_tool
\* and raises nothing.
C1_MissingArguments ==
    (Handled("call_tool") /\ (req.arguments.tag = "None" \/ DOMAIN req.arguments.items = {}))
    => /\ result.kind = "return"
       /\ Len(result.content) = 1
       /\ result.content[1].type = "text"
       /\ \E prefix \in {"", "Error: "} :
              result.content[1].text = prefix \o "Missing arguments"
       /\ Count(trace, LAMBDA x : x.ev = "call" /\ x.target = "module.call_tool") = 0

C1_Witness ==
    /\ Handled("call_tool")
    /\ req.arguments = EmptyArgs
    /\ result.kind = "return"
    /\ req.behaviour.ops # <<>>

\* C2: an exception e raised by the module's call_tool never leaves
\* handle_call_tool: it returns the single text item "Error: " + str(e).
C2_ModuleExceptionInBand ==
    (Reached /\ req.behaviour.outcome.kind = "raise")
    => result = Return(<<TextContent("Error: " \o str(req.behaviour.outcome.exc))>>)

C2_Witness ==
    /\ Reached
    /\ req.behaviour.outcome.kind = "raise"
    /\ req.behaviour.outcome.exc.cls = "KeyError"
    /\ result.kind = "return"
    /\ result.content[1].text = "Error: 'name'"

\* C3: when the source of prompt templates (the override if supplied, else
\* the module) raises, handle_list_prompts returns the empty list, writes
\* one error record and raises nothing, so the server goes on to the next
\* request.
C3_ListPromptsNeverRaises ==
    (Handled("list_prompts") /\ req.outcome.kind = "raise")
    => /\ result = Return(<<>>)
       /\ Count(trace, LAMBDA x : x.ev = "local" /\ x.level = "error") = 1
       /\ Count(trace, LAMBDA x : x.ev = "call") = 1
       /\ \A i \in DOMAIN trace :
            trace[i].ev = "call" =>
                trace[i].target = (IF templates_func THEN "get_prompt_templates_func"
                                   ELSE "module.get_prompt_templates")
       /\ ENABLED Respond

C3_Witness ==
    /\ Handled("list_prompts")
    /\ req.outcome.kind = "raise"
    /\ templates_func
    /\ result.kind = "return"

\* C4: when the source of prompt content raises e, handle_get_prompt
\* raises that same e after writing an error record; it is never turned
\* into a normal result.
C4_GetPromptPropagates ==
    (Handled("get_prompt") /\ req.outcome.kind = "raise")
    => /\ result = Raise(req.outcome.exc)
       /\ trace # <<>>
       /\ trace[Len(trace)].ev = "local"
       /\ trace[Len(trace)].level = "error"
       /\ trace[Len(trace)].msg = GetPromptFailed \o str(req.outcome.exc)

C4_Witness ==
    /\ Handled("get_prompt")
    /\ req.outcome = BaseModuleManager_get_prompt_content("missing", req.arguments)
    /\ ~content_func
    /\ result.kind = "raise"

C6_SendFailureContained ==
    Reached =>
    /\ \A i \in DOMAIN req.behaviour.ops :
         LET o == req.behaviour.ops[i]
             ev == CallEvents(i)
         IN (IsLogOp(o) /\ \E k \in DOMAIN ev :
                               ev[k].ev = "send_log_message" /\ ev[k].raises)
            => /\ Count(ev, LAMBDA x : x.ev = "local" /\ x.level = "error"
                                       /\ x.msg = LogSendFailed \o str(SendError)) = 1
               /\ ev[Len(ev)].ev = "local"
               /\ ev[Len(ev)].msg = LogSendFailed \o str(SendError)
               /\ \A j \in DOMAIN req.behaviour.ops :
                    (j > i /\ IsLogOp(req.behaviour.ops[j])) => CallEvents(j) # <<>>
    /\ result = handle_call_tool(copy, req.name, req.arguments, req.ctx,
                                 req.behaviour, {}).result

C6_Witness ==
    /\ Reached
    /\ Len(req.behaviour.ops) = 2
    /\ req.behaviour.ops[1].m = "info"
    /\ req.behaviour.ops[2].m = "warning"
    /\ req.failing = {1}
    /\ req.ctx.session = "present" /\ req.ctx.send_log
    /\ req.behaviour.outcome.kind = "return"
    /\ req.behaviour.outcome.value.json
    /\ \E k \in DOMAIN trace : trace[k].ev = "send_log_message" /\ trace[k].raises
    /\ result.kind = "return"
    /\ result.content[1].text = "{\n  \"message\": \"done\"\n}"

\* C7: a log call makes exactly one send_log_message attempt, with level =
\* the method's name, data = message and logger = logger_name, if and only
\* if the wrapped context has a session with send_log_message; otherwise
\* it makes no remote send at all.
C7_SendIffCapable ==
    Reached =>
    \A i \in DOMAIN req.behaviour.ops :
        LET o == req.behaviour.ops[i]
            ev == CallEvents(i)
            sends == SelectSeq(ev, LAMBDA x : x.ev = "send_log_message")
        IN IsLogOp(o) =>
            IF req.ctx.session = "present" /\ req.ctx.send_log
            THEN /\ Len(sends) = 1
                 /\ sends[1].level = o.m
                 /\ sends[1].data = o.message
                 /\ sends[1].logger = o.logger_name
                 /\ Count(ev, LAMBDA x : x.ev = "send_progress_notification") = 0
            ELSE Count(ev, LAMBDA x : x.ev \in {"send_log_message",
                                                "send_progress_notification"}) = 0

C7_Witness ==
    /\ Reached
    /\ req.behaviour.ops # <<>>
    /\ req.behaviour.ops[1].m = "warning"
    /\ req.ctx.session = "present" /\ req.ctx.send_log
    /\ req.failing = {}
    /\ Count(CallEvents(1), LAMBDA x : x.ev = "send_log_message") = 1


C9_TokenAlwaysSends ==
    (Reached /\ req.ctx.meta = "token") =>
    \A i \in DOMAIN req.behaviour.ops :
        LET o == req.behaviour.ops[i]
            sends == SelectSeq(CallEvents(i),
                               LAMBDA x : x.ev = "send_progress_notification")
        IN o.m = "report_progress" =>
            /\ Len(sends) = 1
            /\ sends[1].progress_token = ClientToken
            /\ sends[1].progress = o.progress
            /\ sends[1].total = o.total

\* C9 amended: with a progress token AND a session that has
\* send_progress_notification, report_progress makes exactly one send with
\* that token, progress and total; a raising send is followed by one local
\* error record and report_progress returns normally (the script runs on
\* and the payload is the one of a run whose sends succeed).  With a token
\* but no such session it sends nothing.
C9_TokenSendsWhenCapable ==
    (Reached /\ req.ctx.meta = "token") =>
    /\ \A i \in DOMAIN req.behaviour.ops :
        LET o == req.behaviour.ops[i]
            ev == CallEvents(i)
            sends == SelectSeq(ev, LAMBDA x : x.ev = "send_progress_notification")
        IN o.m = "report_progress" =>
            IF req.ctx.session = "present" /\ req.ctx.send_progress
            THEN /\ Len(sends) = 1
                 /\ sends[1].progress_token = ClientToken
                 /\ sends[1].progress = o.progress
                 /\ sends[1].total = o.total
                 /\ sends[1].raises <=> (i \in req.failing)
                 /\ Count(ev, LAMBDA x : x.ev = "local" /\ x.level = "error"
                                         /\ x.msg = ProgressSendFailed \o str(SendError))
                    = (IF sends[1].raises THEN 1 ELSE 0)
                 /\ sends[1].raises => ev[Len(ev)].ev = "local"
            ELSE Len(sends) = 0
    /\ result = handle_call_tool(copy, req.name, req.arguments, req.ctx,
                                 req.behaviour, {}).result

C9_Witness ==
    /\ Reached /\ req.ctx.meta = "token"
    /\ req.ctx.session = "present" /\ req.ctx.send_progress
    /\ Len(req.behaviour.ops) = 2
    /\ req.behaviour.ops[1].m = "report_progress"
    /\ req.behaviour.ops[2].m = "info"
    /\ req.failing = {1}
    /\ \E k \in DOMAIN trace : trace[k].ev = "send_progress_notification" /\ trace[k].raises
    /\ CallEvents(2) # <<>>
    /\ result.kind = "return"

\* C10: when SIGINT is delivered while the stdio session has a request in
\* flight, the process logs the signal and eventually exits.
C10_SigintLeadsToExit ==
    ("SIGINT" \in signals /\ phase = "serving" /\ inflight /\ proc = "running")
    ~> (proc = "exited" /\ "signal:SIGINT" \in life_log)

\* ---- C11
\* Whenever the installed handler runs for a delivered signal, on either
\* platform, it logs the signal's name and the start of graceful shutdown,
\* schedules _trigger_shutdown, and does not fail (the process is still
\* running afterwards).
C11_HandlerLogsAndSchedules ==
    [][\A sig \in signals \ signals' :
          /\ ("signal:" \o sig) \in life_log'
          /\ "graceful_start" \in life_log'
          /\ tasks' = tasks + 1
          /\ proc' = "running"]_vars

\* ---- C12
\* A check of the parent monitor that finds the parent gone, a zombie or
\* out of reach logs it, triggers shutdown (the event is set and the
\* process signals itself or exits with status 1) and ends the loop, which
\* never checks again; a check that finds the parent alive triggers
\* nothing; any other error of a check is logged and the loop goes on.
ParentLogs == {"parent_gone", "parent_zombie", "parent_denied"}

C12_MonitorTriggersOnce ==
    [][/\ (ParentLogs \cap life_log') # (ParentLogs \cap life_log) =>
            /\ parent # "alive"
            /\ monitor = "running" /\ monitor' = "stopped"
            /\ ("parent_" \o parent) \in life_log'
            /\ shutdown_event'
            /\ \/ proc' = "running" /\ SelfSignal \in signals'
               \/ proc' = "exited" /\ exit_code' = 1
       /\ (monitor = "running" /\ monitor' = "stopped") => parent # "alive"
       /\ monitor = "stopped" => monitor' = "stopped"
       /\ ("monitor_error" \in life_log' /\ "monitor_error" \notin life_log) =>
            /\ monitor' = "running" /\ proc' = "running"
            /\ UNCHANGED <<shutdown_event, signals>>]_vars

C12_Witness ==
    /\ monitor = "stopped" /\ proc = "running" /\ shutdown_event
    /\ "parent_zombie" \in life_log
    /\ "monitor_error" \in life_log

\* ---- C13
\* Every run of _trigger_shutdown (a task created by the signal handler,
\* or the parent monitor) sets the event and then either the process has
\* sent itself the platform's signal (SIGBREAK through CTRL_BREAK_EVENT on
\* win32, SIGTERM elsewhere), or the failure to send is logged and the
\* process has exited with status 1.
C13_TriggerSignalsOrExits ==
    [][(tasks' < tasks \/ (monitor = "running" /\ monitor' = "stopped")) =>
          /\ shutdown_event'
          /\ \/ /\ proc' = "running"
                /\ SelfSignal \in signals'
                /\ SelfSignal = (IF platform = "win32" THEN "SIGBREAK" ELSE "SIGTERM")
             \/ /\ proc' = "exited"
                /\ exit_code' = 1
                /\ "kill_failed" \in life_log']_vars

C13_Witness ==
    /\ proc = "exited" /\ ended = SysExit(1) /\ exit_code = 1
    /\ "kill_failed" \in life_log /\ shutdown_event

\* ---- C14
\* When the module factory or the module's initialize raises during
\* startup, under either transport, the exception is logged and the same
\* exception leaves the run: the core is never built, no transport is
\* opened and no request or connection is ever served.
ModuleStartupFailed(e) == StartupFailed(e) \in life_log /\ "initialized" \notin built

C14_StartupFailureAborts ==
    \A e \in StartupExceptions :
        ModuleStartupFailed(e) =>
            /\ proc = "exited"
            /\ ended = Uncaught(e)
            /\ built \cap {"core", "transport"} = {}
            /\ phase \notin {"serving", "sse_serving"}
            /\ ~inflight
            /\ \A s \in Sessions : conn[s] = "none"
            /\ monitor = "off"

C14_Witness ==
    /\ cli_transport = "sse"
    /\ built = {"module"}
    /\ \E e \in StartupExceptions : ModuleStartupFailed(e) /\ ended = Uncaught(e)

\* ---- C15
\* When the run of one SSE connection raises, the error is logged and only
\* that connection goes down: every other connection is as it was, the
\* server still runs and accepts connections, the module is untouched.
C15_ConnectionFailureIsolated ==
    [][\A s \in Sessions :
          (conn[s] = "open" /\ conn'[s] = "failed") =>
              /\ \A t \in Sessions \ {s} : conn'[t] = conn[t]
              /\ "sse_conn_error" \in life_log'
              /\ proc' = "running" /\ phase' = "sse_serving"
              /\ UNCHANGED <<catalog, notes>>]_vars

C15_Witness ==
    /\ proc = "running"
    /\ conn[1] = "failed" /\ conn[2] = "open"
    /\ hist.cur # {}
    /\ ENABLED SseListTools(2)

\* ---- C16
\* A list_tools request on any session returns the catalog of the one
\* module instance as it is then: once a tool call on one session has
\* changed the catalog, a list_tools on another session returns the
\* changed catalog.
C16_SharedCatalog ==
    (hist.cur # {} /\ hist.changer = NoSession) => hist.cur = catalog

C16_Witness ==
    /\ hist.cross
    /\ hist.changer = NoSession
    /\ hist.cur = catalog
    /\ hist.cur # InitialCatalog

\* ---- C17
\* Two list_tools requests with no catalog change between them return
\* equal catalogs, and a list_tools request changes nothing of the module
\* or the server (the catalog, the connections, the pending notifications).
C17_ListToolsIdempotent ==
    /\ [](hist.prev # {} /\ ~hist.between => hist.prev = hist.cur)
    /\ [][(hist' # hist /\ hist'.changer = NoSession) =>
             UNCHANGED <<catalog, conn, notes, life_log, proc>>]_vars

C17_Witness ==
    /\ hist.prev # {} /\ ~hist.between
    /\ hist.prev = hist.cur
    /\ hist.cur # InitialCatalog

HelpAnswered == Len(stdout_out) > 0 /\ stdout_out[1] # StdinError
StartupFailureLogged == \E e \in StartupExceptions : StartupFailed(e) \in life_log

C19_ExitCodes ==
    proc = "exited" =>
        /\ HelpAnswered => exit_code = 0
        /\ StartupFailureLogged => exit_code \notin {0, NoExit}
        /\ "kill_failed" \in life_log => exit_code \notin {0, NoExit}
        /\ (phase = "serving" /\ ended.kind = "sys_exit" /\ "kill_failed" \notin life_log)
              => exit_code = 0

C19_Witness ==
    /\ proc = "exited" /\ cli_transport = "stdio"
    /\ StartupFailureLogged /\ "transport" \notin built /\ "core" \in built
    /\ exit_code = 1

\* ---- C20
\* When run() reads a JSON-RPC "help" request with an id from standard
\* input, it prints exactly one result, carrying that id, the transports
\* stdio and sse and a start schema with every declared module parameter,
\* and exits 0: no module is constructed, no transport started, the
\* configuration file not written.
C20_HelpIsPure ==
    /\ (cli_transport = "sse" /\ stdin_in.kind = "help" /\ stdin_in.has_id
            /\ proc = "exited") =>
          /\ Len(stdout_out) = 1
          /\ stdout_out[1].jsonrpc = "2.0"
          /\ stdout_out[1].id = stdin_in.id
          /\ stdout_out[1].transport = <<"stdio", "sse">>
          /\ {"transport", "port"} \cup module_parameters \subseteq stdout_out[1].properties
    /\ HelpAnswered =>
          /\ proc = "exited" /\ exit_code = 0
          /\ phase = "constructed"
          /\ built = {}
          /\ ~config_written
          /\ \A s \in Sessions : conn[s] = "none"

C20_Witness ==
    /\ proc = "exited" /\ exit_code = 0
    /\ stdin_in = StdinOf("help", "req-2", TRUE)
    /\ Len(stdout_out) = 1
    /\ "greeting" \in stdout_out[1].properties
\* ---- C21
\* C21: when standard input carries a "start" request, the transport that
\* runs is the one named in its params, the port is its params.port, each
\* module parameter in its params has the request's value, and the
\* operator is asked nothing.
C21_StartHandshakeDecides ==
    (launch.kind = "run" /\ launch.args.transport = "sse"
        /\ launch.stdin.kind = "start" /\ started.raised = NoExc)
    => LET p == launch.stdin.params IN
       /\ started.prompts = {}
       /\ started.transport = (IF p.transport = None THEN "sse" ELSE p.transport[1])
       /\ (p.port # None => started.port = p.port)
       /\ (p.greeting # None => started.greeting = p.greeting)

\* ---- C22
\* the value a run falls back on for a setting nothing supplied: the one in
\* the configuration it loaded, or the built-in default
Fallback(saved, builtin) == IF saved # None THEN saved ELSE Some(builtin)
\* the prompt, if there was one, was answered with the default
DefaultTaken(answer) == launch.stdin.kind # "tty" \/ answer = ""

\* C22: the port and the module parameters an SSE run starts with are
\* what the configuration file holds afterwards, and in a run every value
\* given neither by the handshake nor by a flag is the value the loaded
\* configuration holds (the built-in default when it holds none).
C22_SavedAndReloaded ==
    (launch.kind = "run" /\ started.raised = NoExc)
    => LET p == launch.stdin.params
           args == launch.args
       IN /\ started.transport = "sse"
             => config_file = save_config([port |-> started.port,
                                           greeting |-> started.greeting])
          /\ (args.transport = "sse" /\ p.port = None /\ args.port = None
                /\ DefaultTaken(launch.answers.port))
             => started.port = Fallback(launch.config.port, BuiltinPort)
          /\ (p.greeting = None /\ args.greeting = None
                /\ DefaultTaken(launch.answers.greeting))
             => \/ started.greeting
                       = Fallback(launch.config.greeting, greeting_default)
                \/ started.greeting = None /\ launch.config.greeting = None

\* ---- C23
\* C23: a new manager has no change listeners; every add_change_listener
\* call appends exactly one listener to those already held, so after n
\* calls there are n listeners, and no step drops or merges listeners.
C23_ListenersCounted ==
    /\ [](Len(change_listeners) = calls)
    /\ [][/\ Len(change_listeners') >= Len(change_listeners)
          /\ SubSeq(change_listeners', 1, Len(change_listeners)) = change_listeners
          /\ calls' = calls + 1 => Len(change_listeners') = Len(change_listeners) + 1
         ]_vars
C23_Witness ==
    /\ calls = 2 /\ Len(change_listeners) = 2
    /\ change_listeners[1] = change_listeners[2]

\* ---- C24
\* C24: on a manager that overrides nothing, initialize, get_tools and
\* call_tool raise NotImplementedError, get_prompt_templates returns the
\* empty list, and get_prompt_content raises ValueError whatever the
\* template name and the arguments.
C24_BaseDefaults ==
    /\ probe.op \in {"initialize", "get_tools", "base_call_tool"}
       => probe.result.kind = "raise"
          /\ probe.result.exc.cls = "NotImplementedError"
    /\ probe.op = "get_prompt_templates" => probe.result = Return(<<>>)
    /\ probe.op = "get_prompt_content"
       => probe.result.kind = "raise" /\ probe.result.exc.cls = "ValueError"
C24_Witness ==
    /\ probe.op = "get_prompt_content" /\ probe.name = "hello_prompt"
    /\ probe.arguments = NoneArgs /\ probe.result.kind = "raise"

\* ---- C25
\* C25: a call of tool "hello" with arguments {"name": n} is answered by
\* one text item whose text is the JSON object {"message": "Hello, n!"}.
C25_HelloGreetsByName ==
    (probe.op = "call_tool" /\ probe.name = "hello"
        /\ "name" \in DOMAIN probe.arguments.items)
    => probe.result
         = Return(<<TextContent("{\n  \"message\": \"Hello, "
                                \o probe.arguments.items["name"] \o "!\"\n}")>>)
C25_Witness ==
    /\ probe.op = "call_tool" /\ probe.name = "hello"
    /\ "name" \in DOMAIN probe.arguments.items
    /\ probe.arguments.items["name"] = "Ada"
    /\ probe.result.kind = "return"

\* ---- C26
\* C26: looking up, on the adapter, a name the adapter does not define
\* gives the value the original context has under that name, and raises
\* the original's AttributeError when the original has no such name.
C26_LookupDelegates ==
    (probe.op = "getattr" /\ probe.name \notin AdapterDefines)
    => IF probe.name \in DOMAIN probe.original
       THEN probe.result = Got(probe.original[probe.name])
       ELSE probe.result.raised.cls = "AttributeError"
            /\ probe.result = NoAttribute(probe.name)
C26_Witness ==
    /\ probe.op = "getattr" /\ probe.name = "meta"
    /\ "meta" \notin DOMAIN probe.original /\ "session" \in DOMAIN probe.original
    /\ probe.result.raised # NoExc

\* ---- C27
\* the three values of ShutdownState, read off the event and the signals
\* the process has sent to itself
ShutdownState ==
    IF self_signals > 0 THEN "Terminating"
    ELSE IF shutdown_event THEN "ShutdownRequested" ELSE "Running"

\* C27: the process never signals itself while the shutdown event is
\* unset (the event is set no later than the signal is sent), the event
\* once set stays set, and ShutdownState never moves backwards.
C27_ShutdownMovesForward ==
    /\ [](self_signals > 0 => shutdown_event)
    /\ [][/\ shutdown_event => shutdown_event'
          /\ self_signals' >= self_signals
          /\ self_signals' # self_signals => shutdown_event'
          /\ ShutdownState = "Terminating" => ShutdownState' = "Terminating"
          /\ ShutdownState = "ShutdownRequested" => ShutdownState' # "Running"
         ]_vars
C27_Witness ==
    /\ ShutdownState = "Terminating" /\ proc = "running"
    /\ SelfSignal \in signals /\ shutdown_event

\* ---- C28
\* C28: whenever the shutdown event is set while the transport loop is
\* serving, the run eventually leaves the serving loop and the process
\* stops.
C28_RequestedLeadsToStopped ==
    (shutdown_event /\ phase = "serving" /\ proc = "running") ~> (proc = "exited")

\* ---- C29
\* C29: in both transports the module is created before it is
\* initialized, initialized before the core is built around it, and the
\* core is built before the transport is opened; a run that serves has
\* done all four, and a request is only ever handled by an initialized
\* module.
C29_StartupInOrder ==
    /\ "initialized" \in built => "module" \in built
    /\ "core" \in built => "initialized" \in built
    /\ "transport" \in built => "core" \in built
    /\ phase \in {"serving", "sse_serving"}
       => built = {"module", "initialized", "core", "transport"}
    /\ (inflight \/ \E s \in Sessions : conn[s] # "none") => "initialized" \in built
C29_Witness ==
    /\ phase = "sse_serving" /\ proc = "running"
    /\ \E s \in Sessions : conn[s] = "open"
    /\ built = {"module", "initialized", "core", "transport"}

\* ---- C30
\* C30: in either transport, while the server is serving and shutdown
\* has not been requested, the parent-liveness monitor is running (so the
\* parent's exit would be noticed and shutdown requested).
C30_MonitorWhileServing ==
    (phase \in {"serving", "sse_serving"} /\ proc = "running" /\ ~shutdown_event)
    => monitor = "running"

\* ---- C31
\* C31: in one server process the module factory is called once, no
\* module object other than the one it returned is ever constructed, and
\* every list, call and prompt request of every session is answered by
\* that object.
C31_OneModuleInstance ==
    /\ factory_calls <= 1
    /\ instances <= 1
    /\ last.ev = "request" => last.instance = TheModule

\* ---- C32
\* the run ended inside _run_stdio_server or _run_sse_server
TransportRunEnded ==
    /\ proc = "exited"
    /\ \/ phase \in {"serving", "sse_start", "sse_serving"}
       \/ cli_transport = "stdio" /\ ended \in {Uncaught(e) : e \in StartupExceptions}

CalledTimes(target) == Count(trace, LAMBDA x : x.ev = "call" /\ x.target = target)

\* C33: a list-prompts (get-prompt) request calls the override exactly once
\* and the module's method not at all when an override was supplied, and
\* the module's method exactly once when none was; what the one that was
\* called returns is the answer.
C33_OverrideOrModule ==
    /\ Handled("list_prompts")
       => /\ CalledTimes("get_prompt_templates_func") = (IF templates_func THEN 1 ELSE 0)
          /\ CalledTimes("module.get_prompt_templates") = (IF templates_func THEN 0 ELSE 1)
          /\ req.outcome.kind = "return" => result = Return(req.outcome.content)
    /\ Handled("get_prompt")
       => /\ CalledTimes("get_prompt_content_func") = (IF content_func THEN 1 ELSE 0)
          /\ CalledTimes("module.get_prompt_content") = (IF content_func THEN 0 ELSE 1)
          /\ req.outcome.kind = "return" => result = Return(req.outcome.content)
C33_Witness ==
    /\ Handled("list_prompts") /\ templates_func
    /\ result = Return(<<Prompt("hello_prompt")>>)
    /\ CalledTimes("get_prompt_templates_func") = 1

\* ---- C34
\* C34: every call_tool invocation is given an adapter created for it,
\* wrapping the request context of its own session: no two invocations
\* hold the same adapter, an adapter handed out did not exist before the
\* invocation, and what the module emits through its adapter goes to the
\* session of the invocation that emits, whatever else is in flight.
C34_AdapterPerInvocation ==
    /\ [](/\ \A s \in Sessions :
               inv[s] # 0 => adapter_session(adapters, inv[s]) = s
          /\ \A s, t \in Sessions :
               (s # t /\ inv[s] # 0 /\ inv[t] # 0) => inv[s] # inv[t]
          /\ last.ev = "notification" => last.to = last.session)
    /\ [][\A s \in Sessions :
            (inv[s] = 0 /\ inv'[s] # 0) => inv'[s] > Len(adapters)]_vars
C34_Witness ==
    /\ last.ev = "notification" /\ last.session = 1
    /\ inv[1] # 0 /\ inv[2] # 0 /\ inv[1] < inv[2]

\* ---- C37
\* C37: the notification of a change reaches at most the session of the
\* request in whose context notify_changes was called, never another
\* connected session, and no session at all when notify_changes was called
\* outside any request.
C37_ChangeGoesToCaller ==
    last.ev = "changed"
    => /\ last.to \subseteq {last.ctx}
       /\ last.ctx = NoSession => last.to = {}
C37_Witness ==
    /\ last.ev = "changed" /\ last.ctx = 1 /\ last.to = {1}
    /\ conn[2] = "open"

\* ---- C35 --------------------------------------------------------------
\* the progress notifications call i of the request's script sends under
\* one copy of the framework
ProgressSends(cp, i) ==
    SelectSeq(handle_call_tool(cp, req.name, req.arguments, req.ctx,
                               req.behaviour, req.failing).events,
              LAMBDA x : x.call = i /\ x.ev = "send_progress_notification")

\* C35 as stated: without a progress token the copy in
\* src/MCPServerFramework.py sends nothing while the copy in core.py sends
\* one progress notification whose token is the request id as a string;
\* with a token both copies send the same notification.
C35_CopiesDifferWithoutToken ==
    Reached =>
    \A i \in DOMAIN req.behaviour.ops :
        req.behaviour.ops[i].m = "report_progress" =>
            IF req.ctx.meta = "token"
            THEN ProgressSends("main", i) = ProgressSends("core", i)
            ELSE /\ ProgressSends("main", i) = <<>>
                 /\ Len(ProgressSends("core", i)) = 1
                 /\ ProgressSends("core", i)[1].progress_token
                      = str_int(req.ctx.request_id)

\* C35 amended: without a progress token the copy in
\* src/MCPServerFramework.py sends nothing, and the copy in core.py sends
\* one progress notification, with the request id as a string for token and
\* the given progress and total, when the wrapped context has a session
\* with send_progress_notification, and nothing otherwise; with a token
\* both copies send the same notification.
C35_CopiesDifferWhenCapable ==
    Reached =>
    \A i \in DOMAIN req.behaviour.ops :
        LET o == req.behaviour.ops[i]
            ms == ProgressSends("main", i)
            cs == ProgressSends("core", i)
        IN o.m = "report_progress" =>
            IF req.ctx.meta = "token"
            THEN ms = cs
            ELSE /\ ms = <<>>
                 /\ IF req.ctx.session = "present" /\ req.ctx.send_progress
                    THEN /\ Len(cs) = 1
                         /\ cs[1].progress_token = str_int(req.ctx.request_id)
                         /\ cs[1].progress = o.progress
                         /\ cs[1].total = o.total
                    ELSE cs = <<>>

C35_Witness ==
    /\ Reached /\ copy = "core"
    /\ req.ctx.meta = "no_token"
    /\ req.ctx.session = "present" /\ req.ctx.send_progress
    /\ \E i \in DOMAIN req.behaviour.ops :
         /\ req.behaviour.ops[i].m = "report_progress"
         /\ Count(CallEvents(i), LAMBDA x : x.ev = "send_progress_notification") = 1

\* ---- C36 --------------------------------------------------------------
\* the external shutdown triggers of the run so far: the signals delivered
\* from outside and the parent-death detection (the monitor stops at its
\* first detection)
ExternalTriggers == external + (IF monitor = "stopped" THEN 1 ELSE 0)

\* C36: one external shutdown trigger causes exactly one self-directed
\* termination signal: receiving the self-directed signal schedules no
\* further _trigger_shutdown, so the self-directed signals of a run never
\* outnumber its external triggers.
C36_OneSelfSignalPerTrigger == self_signals <= ExternalTriggers

\* ---- C38 --------------------------------------------------------------
\* C38: each notify_changes call invokes every registered listener exactly
\* once, in registration order, also when a listener raises (the remaining
\* listeners are still invoked), and leaves the listener list unchanged.
C38_EveryListenerNotified ==
    /\ [](probe.op = "notify_changes" => probe.ran = probe.held)
    /\ [][(probe'.op = "notify_changes" /\ probe' # probe) =>
            change_listeners' = change_listeners]_vars

\* ---- C39 --------------------------------------------------------------
\* the single text item handle_call_tool returns for the failure e
ErrorItem(e) == Return(<<TextContent("Error: " \o str(e))>>)

\* C39: with truthy arguments, when the request context cannot be obtained
\* or the module's result cannot be serialized to JSON, handle_call_tool
\* returns the single text item "Error: " + str(e) and raises nothing; no
\* Exception-derived failure raised after the argument validation escapes
\* the handler, in either copy.
C39_NoFailureEscapes ==
    (probe.op = "handle_call_tool" /\ Truthy(probe.arguments)) =>
    LET out == probe.behaviour.outcome
        ran == module_call_tool(probe.cp, probe.name, probe.arguments,
                                probe.request_ctx[1], probe.behaviour,
                                probe.failing).outcome
    IN /\ probe.request_ctx = None =>
            /\ probe.result = ErrorItem(LookupError)
            /\ Count(probe.events, LAMBDA x : x.ev = "call") = 0
       /\ (probe.request_ctx # None /\ ran.kind = "return" /\ ~ran.value.json) =>
            probe.result = ErrorItem(json_dumps(ran.value).raised)
       /\ (probe.request_ctx # None /\ ran.kind = "raise"
             /\ ExceptException(ran.exc)) =>
            probe.result = ErrorItem(ran.exc)
       /\ probe.result.kind = "raise" => ~ExceptException(probe.result.exc)

C39_Witness ==
    /\ probe.op = "handle_call_tool" /\ Truthy(probe.arguments)
    /\ probe.request_ctx = None
    /\ probe.result = ErrorItem(LookupError)

\* ---- C40 --------------------------------------------------------------
\* C40: a run started with --transport stdio takes nothing from standard
\* input, from the operator or from the saved configuration, and saves
\* nothing: whatever stdin holds and whatever config.json holds, the module
\* gets exactly the module parameters given as flags (one not given is
\* omitted, not defaulted), no prompt is shown and config.json is left as
\* it was.
C40_StdioTakesOnlyFlags ==
    /\ []((launch.kind = "run" /\ launch.args.transport = "stdio") =>
            /\ started.transport = "stdio"
            /\ started.greeting = launch.args.greeting
            /\ started.prompts = {}
            /\ ~started.saved
            /\ started.raised = NoExc)
    /\ [][(runs' = runs + 1 /\ launch'.args.transport = "stdio") =>
            config_file' = config_file]_vars

C40_Witness ==
    /\ launch.kind = "run" /\ launch.args.transport = "stdio"
    /\ launch.args.greeting = None
    /\ launch.stdin.kind = "start"
    /\ launch.stdin.params.greeting # None
    /\ launch.stdin.params.transport = Some("sse")
    /\ launch.config.greeting # None
    /\ config_file.kind = "saved"
    /\ started.greeting = None

====
